---- MODULE Spec2Model ----
(***************************************************************************)
(* ETF trading assistant: budget ledger (BudgetManager), ranking engine    *)
(* and decision policy (TradingStrategy), and the dialog handlers of the   *)
(* application that drive them.                                            *)
(*                                                                         *)
(* Numbers.  The program computes in IEEE doubles.  The model uses exact   *)
(* integers: amounts and prices are whole rupees and every input below is  *)
(* chosen so that each division the code performs on it is exact (totals   *)
(* are multiples of 50, profits multiples of 5).  Percentages are kept as  *)
(* exact fractions <<numerator, denominator>> with a positive denominator  *)
(* and compared by cross-multiplication; on these magnitudes the double    *)
(* comparison gives the same answer.                                       *)
(*                                                                         *)
(* Dates are day numbers; day d falls on weekday d % 7 with 0 = Sunday and *)
(* 6 = Saturday, as Date.getDay() numbers them.                            *)
(***************************************************************************)
EXTENDS Integers, Sequences, FiniteSets, TLC

\* ------------------------------------------------------------------------
\* Bounds of the model
\* ------------------------------------------------------------------------
MaxLots == 2            \* rows a holdings table has at most
MaxDrawnLots == 3       \* rows of a holdings table whose lots differ in age
MaxDay == 3             \* latest purchase day of such a table
MaxBudget == 6000       \* total budget beyond which no top-up is modelled
MaxRankDay == 2         \* last day on which rankings are calculated
MaxLedgerDay == 68      \* last day of the ledger calls; they begin the day before
MaxReinvested == 1600   \* reinvested profit beyond which no profit is added
StatsLots == 2          \* rows of a holdings table whose statistics are taken
PlanLastDay == 75       \* last day on which the days of a plan are counted
MaxTradingDays == 12    \* most trading days added to a date by calculateEndDate
CalendarLastDay == 14   \* last start date given to calculateEndDate
MaxImportRows == 2      \* instruments a CSV file leaves after filtering, at most
MaxRuns == 2            \* runs of calculateDailyStrategy that overlap, at most
MaxRequests == 3        \* saveConfig calls that have not ended, at most

\* ------------------------------------------------------------------------
\* Program constants
\* ------------------------------------------------------------------------
MinBudget == 5000
MinTopup == 1000
PlanDays == 50
DefaultMaxRank == 5
profitThreshold == 6
defaultQuantity == 1
\* averagingLossThreshold is -2.5, kept as the fraction -25/10
averagingLossThreshold == <<0 - 25, 10>>

\* JavaScript null / an absent object
Null == [null |-> TRUE]

Min(a, b) == IF a < b THEN a ELSE b
Max(a, b) == IF a > b THEN a ELSE b

\* ------------------------------------------------------------------------
\* Inputs
\* ------------------------------------------------------------------------
\* <<cmp, dma_20>> pairs an instrument may carry.  Against a buy price of
\* 1000: 975 is a loss of exactly 2.5%, 1060 a profit of exactly 6%, 1065 a
\* profit above 6%
Quotes == {<<975, 1000>>, <<1060, 1000>>, <<1065, 1000>>, <<100, 100>>}
\* the quotes the price feed sets while trades are being made
FeedQuotes == {<<975, 1000>>, <<1065, 1000>>}
\* the quotes of the instruments of a table of lots put up for selling
SellQuotes == {<<975, 1000>>, <<1060, 1000>>, <<1065, 1000>>}
\* ledger calls: start dates (day 1 is a Monday, so that day 68 is the 50th
\* trading day from it; day 60 lies inside the plan on both days), amounts
\* invested (the last above anything available), profits realised
\* the newest budget_config row of another user who signs in on the same
\* page: none, or a budget begun the day after with one purchase made
OtherUserRows == {Null,
                  [total_budget |-> 6000, daily_amount |-> 120, start_date |-> 2,
                   used_amount |-> 975, reinvested_profit |-> 0]}
\* CSV files: the rows parsed (as many as, or one more than, the
\* instruments left after filtering) and the instruments to upsert
ImportFiles ==
    {[totalRows |-> kept + dropped,
      validETFs |-> [k \in 1 .. kept |-> [id |-> k, cmp |-> 1065, dma_20 |-> 1000]]] :
        kept \in 0 .. MaxImportRows, dropped \in {0, 1}}
LedgerStartDates == {1, 60}
LedgerInvestments == {1000, 3000, 9000}
LedgerProfits == {0, 1000}
\* profits (a loss, none, and two whose shares are whole rupees) and holding
\* periods in days (around the 365-day limit) given to calculateProfitAllocation
AllocationProfits == {0 - 40, 0, 40, 1000}
AllocationPeriods == {0, 100, 365, 366, 400}
\* the lots whose statistics are taken: prices they were sold at (bought at
\* 1000: a loss and a profit of 40 a unit), the days they were sold on
\* (bought on day 1: held 365 and 366 days) and their quantities
\* the budget whose days are counted, and the start dates given to it: a
\* Monday, a Saturday and (below) a day after the last one
DaysBudgets == {50000}
DaysStartDates == {1, 6}
StatsPrices == {960, 1040}
StatsSaleDays == {366, 367}
StatsQuantities == {1, 2}
\* the quotes of a table that is ranked: below, at and above the average,
\* and a row whose average is 0
RankQuotes == {<<975, 1000>>, <<1000, 1000>>, <<1065, 1000>>, <<500, 0>>}
\* budget form: amounts (one below the minimum) and start dates
BudgetAmounts == {4000, 5000}
StartDates == {1}
TopupAmounts == {500, 1000}
\* values typed into the quantity field of the confirmation dialog
QuantityInputs == {0, 5}
\* values of the manual buy form
ManualPrices == {975}
ManualQuantities == {0, 5}
\* maxRankToConsider: the default, and a limit below the number of instruments
RankLimits == {2, DefaultMaxRank}
\* quantities asked of executeBuyAction when it is called directly
DirectQuantities == {1, 2, 6}
\* trades: what is typed into the quantity field of the confirmation dialog
\* (parseInt reads a sign) and into the quantity field of the manual buy form
TradeQuantityInputs == {0 - 1, 0}
TradeManualQuantities == {0 - 1, 1}

\* ------------------------------------------------------------------------
\* Utils
\* ------------------------------------------------------------------------
\* calculateDeviation without the test of dma
calculateDeviation_Unguarded(cmp, dma) == <<(cmp - dma) * 100, dma>>

\* Utils.calculateDeviation: 0 when dma = 0, else (cmp - dma) / dma * 100
calculateDeviation(cmp, dma) ==
    IF dma = 0 THEN <<0, 1>> ELSE <<(cmp - dma) * 100, dma>>

\* Utils.calculatePercentageChange: 0 when oldValue = 0
calculatePercentageChange(oldValue, newValue) ==
    IF oldValue = 0 THEN <<0, 1>> ELSE <<(newValue - oldValue) * 100, oldValue>>

\* comparisons of fractions with positive denominators
FracLess(a, b) == a[1] * b[2] < b[1] * a[2]
FracLeq(a, b) == a[1] * b[2] <= b[1] * a[2]

\* Utils.daysBetween(buyDate, now): ceil of the elapsed time in days; the
\* purchase date is a midnight and "now" lies inside day `endDay`
daysBetween(startDay, endDay) ==
    LET d == endDay - startDay IN (IF d < 0 THEN 0 - d ELSE d) + 1

\* Utils.calculateEndDate adding calendar days
calculateEndDate_EveryDay(startDate, tradingDays) ==
    IF tradingDays > 0 THEN startDate + tradingDays ELSE startDate

\* the loop of Utils.calculateEndDate: a day is added, and counted unless it
\* is a Sunday or a Saturday
RECURSIVE AddTradingDays(_, _, _)
AddTradingDays(currentDate, daysAdded, tradingDays) ==
    IF daysAdded < tradingDays
    THEN AddTradingDays(currentDate + 1,
                        IF (currentDate + 1) % 7 # 0 /\ (currentDate + 1) % 7 # 6
                        THEN daysAdded + 1 ELSE daysAdded,
                        tradingDays)
    ELSE currentDate

calculateEndDate(startDate, tradingDays) == AddTradingDays(startDate, 0, tradingDays)

\* ------------------------------------------------------------------------
\* BudgetManager (pure parts, on the in-memory config)
\* ------------------------------------------------------------------------
\* getAvailableAmount without the subtraction of usedAmount
getAvailableAmount_IgnoresUsed(cfg) ==
    IF cfg = Null THEN 0 ELSE cfg.totalBudget + cfg.reinvestedProfit

\* getAvailableAmount without the addition of reinvestedProfit
getAvailableAmount_IgnoresReinvested(cfg) ==
    IF cfg = Null THEN 0 ELSE cfg.totalBudget - cfg.usedAmount

getAvailableAmount(cfg) ==
    IF cfg = Null THEN 0
    ELSE cfg.totalBudget - cfg.usedAmount + cfg.reinvestedProfit

getDailyAmount(cfg) == IF cfg = Null THEN 0 ELSE cfg.dailyAmount

isConfigured(cfg) == cfg # Null

checkSufficientBudget(cfg, amount) ==
    LET available == getAvailableAmount(cfg) IN
    [sufficient |-> amount <= available,
     available |-> available,
     required |-> amount,
     shortfall |-> Max(0, amount - available)]

\* the loop of calculateDaysCompleted (the second definition of that name in
\* the class, which is the one in effect)
RECURSIVE CountDays(_, _, _)
CountDays(checkDate, currentDate, daysCompleted) ==
    IF checkDate <= currentDate /\ daysCompleted < PlanDays
    THEN CountDays(checkDate + 1, currentDate,
                   IF checkDate % 7 # 0 /\ checkDate % 7 # 6
                   THEN daysCompleted + 1 ELSE daysCompleted)
    ELSE daysCompleted

\* The operations below act on this.config and call saveConfig.  Each takes
\* the config and the current day and gives a record: `config` is this.config
\* when the call ends, `saves` the number of saveConfig calls that reached
\* the store (saveConfig returns at once without a config), `threw` whether
\* the call ended in an exception, `value` what it returned.

\* calculateDaysCompleted counting Saturdays and Sundays as well
calculateDaysCompleted_EveryDay(cfg, now) ==
    IF cfg = Null THEN [value |-> 0, config |-> cfg, saves |-> 0]
    ELSE LET daysCompleted == Min(Max(0, now - cfg.startDate + 1), PlanDays) IN
         [value |-> daysCompleted,
          config |-> [cfg EXCEPT !.daysCompleted = daysCompleted],
          saves |-> 1]

\* calculateDaysCompleted: counts, stores the count in config.daysCompleted
\* and saves the config
calculateDaysCompleted(cfg, now) ==
    IF cfg = Null THEN [value |-> 0, config |-> cfg, saves |-> 0]
    ELSE LET daysCompleted == Min(CountDays(cfg.startDate, now, 0), PlanDays) IN
         [value |-> daysCompleted,
          config |-> [cfg EXCEPT !.daysCompleted = daysCompleted],
          saves |-> 1]

getRemainingDays(cfg, now) ==
    IF cfg = Null THEN [value |-> PlanDays, config |-> cfg, saves |-> 0]
    ELSE LET counted == calculateDaysCompleted(cfg, now) IN
         [value |-> Max(0, PlanDays - counted.value),
          config |-> counted.config,
          saves |-> counted.saves]

\* updateDisplay: reads getRemainingDays() for the days-remaining element and,
\* in updateTopupSection, once more when there is a config
updateDisplay(cfg, now) ==
    LET shown == getRemainingDays(cfg, now)
        section == IF shown.config = Null
                   THEN [value |-> 0, config |-> shown.config, saves |-> 0]
                   ELSE getRemainingDays(shown.config, now)
    IN [config |-> section.config, saves |-> shown.saves + section.saves]

\* saveConfig: the row written to budget_config (budgetData)
budgetData(cfg) ==
    [total_budget |-> cfg.totalBudget,
     daily_amount |-> cfg.dailyAmount,
     start_date |-> cfg.startDate,
     used_amount |-> cfg.usedAmount,
     reinvested_profit |-> cfg.reinvestedProfit]

\* the budget_config row of the user after an operation that ended with
\* this.config = cfg and issued `saves` saveConfig calls: each call updates
\* the row, or inserts it when there is none, and the last of them was
\* issued with the config the operation ended with
saveConfig(row, cfg, saves) ==
    IF cfg = Null \/ saves = 0 THEN row ELSE budgetData(cfg)

\* recordInvestment without the test against the available amount
recordInvestment_Unchecked(cfg, amount, now) ==
    IF cfg = Null THEN [threw |-> FALSE, value |-> FALSE, config |-> cfg, saves |-> 0]
    ELSE LET shown == updateDisplay([cfg EXCEPT !.usedAmount = cfg.usedAmount + amount],
                                    now)
         IN [threw |-> FALSE, value |-> TRUE, config |-> shown.config,
             saves |-> 1 + shown.saves]

\* recordInvestment: returns false without a config, throws when the amount
\* exceeds the available amount, otherwise adds it to usedAmount
recordInvestment(cfg, amount, now) ==
    IF cfg = Null THEN [threw |-> FALSE, value |-> FALSE, config |-> cfg, saves |-> 0]
    ELSE IF amount > getAvailableAmount(cfg)
    THEN [threw |-> TRUE, value |-> FALSE, config |-> cfg, saves |-> 0]
    ELSE LET shown == updateDisplay([cfg EXCEPT !.usedAmount = cfg.usedAmount + amount],
                                    now)
         IN [threw |-> FALSE, value |-> TRUE, config |-> shown.config,
             saves |-> 1 + shown.saves]

\* calculateProfitAllocation taxing every profit at the short-term rate
calculateProfitAllocation_FlatTax(profit, holdingPeriod) ==
    IF profit <= 0 THEN Null
    ELSE LET isSTCG == holdingPeriod <= 365
             taxAmount == (profit * 150) \div 1000
             brokerageAmount == (profit * 5) \div 100
             reinvestmentAmount == (profit * 80) \div 100
         IN [totalProfit |-> profit,
             taxType |-> IF isSTCG THEN "STCG" ELSE "LTCG",
             taxRate |-> <<150, 10>>,
             taxAmount |-> taxAmount,
             brokerageAmount |-> brokerageAmount,
             reinvestmentAmount |-> reinvestmentAmount,
             netAmount |-> profit - taxAmount - brokerageAmount,
             holdingPeriod |-> holdingPeriod]

\* calculateProfitAllocation counting a holding period of 365 days as long-term
calculateProfitAllocation_UnderAYear(profit, holdingPeriod) ==
    IF profit <= 0 THEN Null
    ELSE LET isSTCG == holdingPeriod < 365
             taxAmount == (profit * (IF isSTCG THEN 150 ELSE 125)) \div 1000
             brokerageAmount == (profit * 5) \div 100
             reinvestmentAmount == (profit * 80) \div 100
         IN [totalProfit |-> profit,
             taxType |-> IF isSTCG THEN "STCG" ELSE "LTCG",
             taxRate |-> IF isSTCG THEN <<150, 10>> ELSE <<125, 10>>,
             taxAmount |-> taxAmount,
             brokerageAmount |-> brokerageAmount,
             reinvestmentAmount |-> reinvestmentAmount,
             netAmount |-> profit - taxAmount - brokerageAmount,
             holdingPeriod |-> holdingPeriod]

\* calculateProfitAllocation: null for profit <= 0. The rates 0.15, 0.125,
\* 0.05 and 0.80 are applied as 150/1000, 125/1000, 5/100 and 80/100; amounts
\* are whole rupees, which is exact for the profits the specifications
\* produce (multiples of 40 in AllocationProfits and StatsPrices, of 5
\* elsewhere, where only reinvestmentAmount is used). taxRate is the rate in
\* percent as a fraction <<tenths, 10>>.
calculateProfitAllocation(profit, holdingPeriod) ==
    IF profit <= 0 THEN Null
    ELSE LET isSTCG == holdingPeriod <= 365
             taxAmount == (profit * (IF isSTCG THEN 150 ELSE 125)) \div 1000
             brokerageAmount == (profit * 5) \div 100
             reinvestmentAmount == (profit * 80) \div 100
         IN [totalProfit |-> profit,
             taxType |-> IF isSTCG THEN "STCG" ELSE "LTCG",
             taxRate |-> IF isSTCG THEN <<150, 10>> ELSE <<125, 10>>,
             taxAmount |-> taxAmount,
             brokerageAmount |-> brokerageAmount,
             reinvestmentAmount |-> reinvestmentAmount,
             netAmount |-> profit - taxAmount - brokerageAmount,
             holdingPeriod |-> holdingPeriod]

addProfitToReinvestment(cfg, profitAllocation, now) ==
    IF cfg = Null \/ profitAllocation = Null
    THEN [threw |-> FALSE, value |-> FALSE, config |-> cfg, saves |-> 0]
    ELSE LET shown == updateDisplay(
                          [cfg EXCEPT !.reinvestedProfit =
                              cfg.reinvestedProfit + profitAllocation.reinvestmentAmount],
                          now)
         IN [threw |-> FALSE, value |-> TRUE, config |-> shown.config,
             saves |-> 1 + shown.saves]

\* ------------------------------------------------------------------------
\* TradingStrategy: ranking
\* ------------------------------------------------------------------------
\* etfs.map(etf => ({...etf, deviation}))
etfsWithDeviations(etfTable) ==
    [i \in 1 .. Len(etfTable) |->
        [id |-> etfTable[i].id, cmp |-> etfTable[i].cmp, dma_20 |-> etfTable[i].dma_20,
         deviation |-> calculateDeviation(etfTable[i].cmp, etfTable[i].dma_20)]]

\* Array.prototype.sort is stable: an element is placed after every element
\* the comparator does not order behind it
RECURSIVE InsertAscending(_, _)
InsertAscending(sorted, x) ==
    IF sorted = <<>> THEN <<x>>
    ELSE IF FracLess(x.deviation, Head(sorted).deviation) THEN <<x>> \o sorted
    ELSE <<Head(sorted)>> \o InsertAscending(Tail(sorted), x)

\* the sort with the comparator reversed: b.deviation - a.deviation
RECURSIVE InsertDescendingDeviation(_, _)
InsertDescendingDeviation(sorted, x) ==
    IF sorted = <<>> THEN <<x>>
    ELSE IF FracLess(Head(sorted).deviation, x.deviation) THEN <<x>> \o sorted
    ELSE <<Head(sorted)>> \o InsertDescendingDeviation(Tail(sorted), x)

RECURSIVE SortDescendingDeviation(_)
SortDescendingDeviation(s) ==
    IF s = <<>> THEN <<>>
    ELSE InsertDescendingDeviation(SortDescendingDeviation(SubSeq(s, 1, Len(s) - 1)), s[Len(s)])

\* sort((a, b) => a.deviation - b.deviation)
RECURSIVE SortByDeviation(_)
SortByDeviation(s) ==
    IF s = <<>> THEN <<>>
    ELSE InsertAscending(SortByDeviation(SubSeq(s, 1, Len(s) - 1)), s[Len(s)])

\* calculateRankings: the sorted array it returns
calculateRankings(etfTable) == SortByDeviation(etfsWithDeviations(etfTable))

\* this.currentRankings
rankRows(rankedETFs) ==
    [i \in 1 .. Len(rankedETFs) |->
        [etf_id |-> rankedETFs[i].id, rank |-> i, deviation |-> rankedETFs[i].deviation]]

\* delete().eq('date', today): the rows of the other dates stay
RECURSIVE deleteRanksOfDate(_, _)
deleteRanksOfDate(table, date) ==
    IF table = <<>> THEN <<>>
    ELSE IF Head(table).date = date THEN deleteRanksOfDate(Tail(table), date)
    ELSE <<Head(table)>> \o deleteRanksOfDate(Tail(table), date)

\* the rows inserted for a ranking
rankData(rankedETFs, date) ==
    [index \in 1 .. Len(rankedETFs) |->
        [etf_id |-> rankedETFs[index].id,
         deviation |-> rankedETFs[index].deviation,
         rank |-> index,
         date |-> date]]

\* updateRankingsInDatabase that inserts without deleting first
updateRankingsInDatabase_InsertOnly(table, rankedETFs, date) ==
    table \o rankData(rankedETFs, date)

\* updateRankingsInDatabase: delete the rows of today, insert the new rows
updateRankingsInDatabase(table, rankedETFs, date) ==
    deleteRanksOfDate(table, date) \o rankData(rankedETFs, date)

\* ------------------------------------------------------------------------
\* TradingStrategy: data retrieval
\* ------------------------------------------------------------------------
cmpOf(etfTable, etfId) ==
    LET i == CHOOSE j \in 1 .. Len(etfTable) : etfTable[j].id = etfId IN etfTable[i].cmp

\* the rows of a query result in one of the orders the database may return
\* them in: the select of getCurrentHoldings has no ORDER BY
anyOrder(rows) ==
    {[i \in 1 .. Len(rows) |-> rows[p[i]]] : p \in Permutations(1 .. Len(rows))}

\* getCurrentHoldings: the active rows, each joined with its instrument's cmp,
\* here in insertion order
getCurrentHoldings(holdingRows, etfTable) ==
    LET active == SelectSeq(holdingRows, LAMBDA h : h.active) IN
    [i \in 1 .. Len(active) |->
        [id |-> active[i].id, etf_id |-> active[i].etf_id,
         buy_price |-> active[i].buy_price, quantity |-> active[i].quantity,
         date_purchased |-> active[i].date_purchased,
         etfs |-> [cmp |-> cmpOf(etfTable, active[i].etf_id)]]]

\* getSoldHoldings: the inactive rows; the select orders them by date_sold,
\* here they are in insertion order (getPortfolioStats only adds them up)
getSoldHoldings(holdingRows) == SelectSeq(holdingRows, LAMBDA h : ~h.active)

\* Utils.daysBetween(buyDate, sellDate) of two stored dates: both are
\* midnights, so the ceiling is the difference in days
daysBetweenDates(startDay, endDay) ==
    LET d == endDay - startDay IN IF d < 0 THEN 0 - d ELSE d

\* the accumulation of a forEach: the sum of the numbers of a sequence
RECURSIVE SumOf(_)
SumOf(numbers) ==
    IF numbers = <<>> THEN 0 ELSE Head(numbers) + SumOf(Tail(numbers))

\* getPortfolioStats with the brokerage subtracted from netProfit as well
getPortfolioStats_NetOfBrokerage(holdingRows, etfTable) ==
    LET activeRows == getCurrentHoldings(holdingRows, etfTable)
        soldHoldings == getSoldHoldings(holdingRows)
        investment == [i \in 1 .. Len(activeRows) |->
                          activeRows[i].buy_price * activeRows[i].quantity]
        current == [i \in 1 .. Len(activeRows) |->
                       activeRows[i].etfs.cmp * activeRows[i].quantity]
        totalInvestment == SumOf(investment)
        currentValue == SumOf(current)
        totalPL == SumOf([i \in 1 .. Len(activeRows) |-> current[i] - investment[i]])
        profit == [i \in 1 .. Len(soldHoldings) |->
                      soldHoldings[i].sell_price * soldHoldings[i].quantity
                          - soldHoldings[i].buy_price * soldHoldings[i].quantity]
        profitAllocation == [i \in 1 .. Len(soldHoldings) |->
                                calculateProfitAllocation(profit[i],
                                    daysBetweenDates(soldHoldings[i].date_purchased,
                                                     soldHoldings[i].date_sold))]
        taxed(i) == profit[i] > 0 /\ profitAllocation[i] # Null
        realizedPL == SumOf(profit)
        totalTaxPaid == SumOf([i \in 1 .. Len(soldHoldings) |->
                                  IF taxed(i) THEN profitAllocation[i].taxAmount ELSE 0])
        brokerage == SumOf([i \in 1 .. Len(soldHoldings) |->
                               IF taxed(i) THEN profitAllocation[i].brokerageAmount
                               ELSE 0])
        stcgTax == SumOf([i \in 1 .. Len(soldHoldings) |->
                             IF taxed(i) /\ profitAllocation[i].taxType = "STCG"
                             THEN profitAllocation[i].taxAmount ELSE 0])
        ltcgTax == SumOf([i \in 1 .. Len(soldHoldings) |->
                             IF taxed(i) /\ profitAllocation[i].taxType # "STCG"
                             THEN profitAllocation[i].taxAmount ELSE 0])
    IN [activeHoldings |-> Len(activeRows),
        totalInvestment |-> totalInvestment,
        currentValue |-> currentValue,
        unrealizedPL |-> totalPL,
        unrealizedPLPercent |-> IF totalInvestment > 0
                                THEN <<totalPL * 100, totalInvestment>> ELSE <<0, 1>>,
        soldHoldings |-> Len(soldHoldings),
        realizedPL |-> realizedPL,
        totalTaxPaid |-> totalTaxPaid,
        stcgTax |-> stcgTax,
        ltcgTax |-> ltcgTax,
        totalPL |-> totalPL + realizedPL,
        netProfit |-> realizedPL - totalTaxPaid - brokerage]

\* getPortfolioStats: the sums over the active rows at the current prices,
\* and over the sold rows the realised profit and loss and the tax of the
\* rows sold at a profit, recomputed by calculateProfitAllocation
getPortfolioStats(holdingRows, etfTable) ==
    LET activeRows == getCurrentHoldings(holdingRows, etfTable)
        soldHoldings == getSoldHoldings(holdingRows)
        investment == [i \in 1 .. Len(activeRows) |->
                          activeRows[i].buy_price * activeRows[i].quantity]
        current == [i \in 1 .. Len(activeRows) |->
                       activeRows[i].etfs.cmp * activeRows[i].quantity]
        totalInvestment == SumOf(investment)
        currentValue == SumOf(current)
        totalPL == SumOf([i \in 1 .. Len(activeRows) |-> current[i] - investment[i]])
        profit == [i \in 1 .. Len(soldHoldings) |->
                      soldHoldings[i].sell_price * soldHoldings[i].quantity
                          - soldHoldings[i].buy_price * soldHoldings[i].quantity]
        profitAllocation == [i \in 1 .. Len(soldHoldings) |->
                                calculateProfitAllocation(profit[i],
                                    daysBetweenDates(soldHoldings[i].date_purchased,
                                                     soldHoldings[i].date_sold))]
        taxed(i) == profit[i] > 0 /\ profitAllocation[i] # Null
        realizedPL == SumOf(profit)
        totalTaxPaid == SumOf([i \in 1 .. Len(soldHoldings) |->
                                  IF taxed(i) THEN profitAllocation[i].taxAmount ELSE 0])
        stcgTax == SumOf([i \in 1 .. Len(soldHoldings) |->
                             IF taxed(i) /\ profitAllocation[i].taxType = "STCG"
                             THEN profitAllocation[i].taxAmount ELSE 0])
        ltcgTax == SumOf([i \in 1 .. Len(soldHoldings) |->
                             IF taxed(i) /\ profitAllocation[i].taxType # "STCG"
                             THEN profitAllocation[i].taxAmount ELSE 0])
    IN [activeHoldings |-> Len(activeRows),
        totalInvestment |-> totalInvestment,
        currentValue |-> currentValue,
        unrealizedPL |-> totalPL,
        unrealizedPLPercent |-> IF totalInvestment > 0
                                THEN <<totalPL * 100, totalInvestment>> ELSE <<0, 1>>,
        soldHoldings |-> Len(soldHoldings),
        realizedPL |-> realizedPL,
        totalTaxPaid |-> totalTaxPaid,
        stcgTax |-> stcgTax,
        ltcgTax |-> ltcgTax,
        totalPL |-> totalPL + realizedPL,
        netProfit |-> realizedPL - totalTaxPaid]

\* ------------------------------------------------------------------------
\* TradingStrategy: decision policy
\* ------------------------------------------------------------------------
\* calculateRecommendedQuantity without Math.max(1, .)
calculateRecommendedQuantity_Unclamped(price, cfg) ==
    LET dailyAmount == getDailyAmount(cfg) IN
    IF dailyAmount = 0 THEN defaultQuantity ELSE dailyAmount \div price

calculateRecommendedQuantity(price, cfg) ==
    LET dailyAmount == getDailyAmount(cfg) IN
    IF dailyAmount = 0 THEN defaultQuantity
    ELSE Max(1, dailyAmount \div price)

\* the Rule 1 loop run over every rank, maxRankToConsider ignored
RECURSIVE eligibleETFs_AllRanks(_, _, _, _, _)
eligibleETFs_AllRanks(rankedETFs, heldETFIds, cfg, limit, i) ==
    IF i > Len(rankedETFs) THEN <<>>
    ELSE LET etf == rankedETFs[i]
             rest == eligibleETFs_AllRanks(rankedETFs, heldETFIds, cfg, limit, i + 1)
         IN IF etf.id \notin heldETFIds
            THEN <<[type |-> "BUY", etf |-> etf,
                    quantity |-> calculateRecommendedQuantity(etf.cmp, cfg),
                    rank |-> i]>> \o rest
            ELSE rest

\* Rule 1 loop: for (i = 0; i < min(maxRankToConsider, length); i++)
RECURSIVE eligibleETFs(_, _, _, _, _)
eligibleETFs(rankedETFs, heldETFIds, cfg, limit, i) ==
    IF i > Min(limit, Len(rankedETFs)) THEN <<>>
    ELSE LET etf == rankedETFs[i]
             rest == eligibleETFs(rankedETFs, heldETFIds, cfg, limit, i + 1)
         IN IF etf.id \notin heldETFIds
            THEN <<[type |-> "BUY", etf |-> etf,
                    quantity |-> calculateRecommendedQuantity(etf.cmp, cfg),
                    rank |-> i]>> \o rest
            ELSE rest

\* the Rule 2 loop with lossPercent < averagingLossThreshold
RECURSIVE averagingScan_Exclusive(_, _, _, _)
averagingScan_Exclusive(rankedETFs, holdings, cfg, k) ==
    IF k > Len(holdings) THEN Null
    ELSE LET holding == holdings[k]
             found == {j \in 1 .. Len(rankedETFs) : rankedETFs[j].id = holding.etf_id}
         IN IF found = {} THEN averagingScan_Exclusive(rankedETFs, holdings, cfg, k + 1)
            ELSE LET etf == rankedETFs[CHOOSE j \in found : \A j2 \in found : j <= j2]
                     lossPercent == calculatePercentageChange(holding.buy_price, etf.cmp)
                 IN IF FracLess(lossPercent, averagingLossThreshold)
                    THEN [type |-> "AVERAGE", etf |-> etf,
                          quantity |-> calculateRecommendedQuantity(etf.cmp, cfg)]
                    ELSE averagingScan_Exclusive(rankedETFs, holdings, cfg, k + 1)

\* Rule 2 loop: for (const holding of holdings), first match returns
RECURSIVE averagingScan(_, _, _, _)
averagingScan(rankedETFs, holdings, cfg, k) ==
    IF k > Len(holdings) THEN Null
    ELSE LET holding == holdings[k]
             found == {j \in 1 .. Len(rankedETFs) : rankedETFs[j].id = holding.etf_id}
         IN IF found = {} THEN averagingScan(rankedETFs, holdings, cfg, k + 1)
            ELSE LET etf == rankedETFs[CHOOSE j \in found : \A j2 \in found : j <= j2]
                     lossPercent == calculatePercentageChange(holding.buy_price, etf.cmp)
                 IN IF FracLeq(lossPercent, averagingLossThreshold)
                    THEN [type |-> "AVERAGE", etf |-> etf,
                          quantity |-> calculateRecommendedQuantity(etf.cmp, cfg)]
                    ELSE averagingScan(rankedETFs, holdings, cfg, k + 1)

\* determineBuyAction with Rule 2 tried before Rule 1
determineBuyAction_AveragingFirst(rankedETFs, heldETFIds, holdings, cfg, maxRankToConsider) ==
    LET eligible == eligibleETFs(rankedETFs, heldETFIds, cfg, maxRankToConsider, 1)
        averaging == averagingScan(rankedETFs, holdings, cfg, 1)
    IN IF averaging # Null THEN averaging
       ELSE IF Len(eligible) > 0
       THEN [type |-> "MULTIPLE_OPTIONS", options |-> eligible, defaultOption |-> eligible[1]]
       ELSE Null

determineBuyAction(rankedETFs, heldETFIds, holdings, cfg, maxRankToConsider) ==
    LET eligible == eligibleETFs(rankedETFs, heldETFIds, cfg, maxRankToConsider, 1) IN
    IF Len(eligible) > 0
    THEN [type |-> "MULTIPLE_OPTIONS", options |-> eligible, defaultOption |-> eligible[1]]
    ELSE averagingScan(rankedETFs, holdings, cfg, 1)

\* profitableHoldings.sort((a, b) => new Date(b.date_purchased) - new Date(a.date_purchased))
RECURSIVE InsertNewestFirst(_, _)
InsertNewestFirst(sorted, x) ==
    IF sorted = <<>> THEN <<x>>
    ELSE IF x.date_purchased > Head(sorted).date_purchased THEN <<x>> \o sorted
    ELSE <<Head(sorted)>> \o InsertNewestFirst(Tail(sorted), x)

RECURSIVE SortNewestFirst(_)
SortNewestFirst(s) ==
    IF s = <<>> THEN <<>>
    ELSE InsertNewestFirst(SortNewestFirst(SubSeq(s, 1, Len(s) - 1)), s[Len(s)])

isProfitable(holding) ==
    FracLess(<<profitThreshold, 1>>,
             calculatePercentageChange(holding.buy_price, holding.etfs.cmp))

\* determineSellAction without the sort: the first profitable holding found
determineSellAction_FirstFound(holdings) ==
    LET profitableHoldings == SelectSeq(holdings, isProfitable) IN
    IF Len(profitableHoldings) = 0 THEN Null
    ELSE [type |-> "SELL", holding |-> profitableHoldings[1]]

determineSellAction(holdings) ==
    LET profitableHoldings == SelectSeq(holdings, isProfitable) IN
    IF Len(profitableHoldings) = 0 THEN Null
    ELSE [type |-> "SELL", holding |-> SortNewestFirst(profitableHoldings)[1]]

\* applyTradingLogic: the bundle {buy, sell}
applyTradingLogic(rankedETFs, holdings, cfg, maxRankToConsider) ==
    LET heldETFIds == {holdings[i].etf_id : i \in 1 .. Len(holdings)} IN
    [buy |-> determineBuyAction(rankedETFs, heldETFIds, holdings, cfg, maxRankToConsider),
     sell |-> determineSellAction(holdings)]

\* ------------------------------------------------------------------------
\* BudgetManager: setBudget, topupBudget, previewTopup
\* ------------------------------------------------------------------------
\* the outcome of a call that threw with this.config as given
thrown(cfg, saves) == [threw |-> TRUE, value |-> Null, config |-> cfg, saves |-> saves]

\* setBudget without the test of the minimum amount
setBudget_NoMinimum(cfg, totalBudget, startDateField, now) ==
    IF startDateField = <<>> THEN thrown(cfg, 0)
    ELSE LET shown == updateDisplay([totalBudget |-> totalBudget,
                                     dailyAmount |-> totalBudget \div PlanDays,
                                     startDate |-> startDateField[1],
                                     usedAmount |-> 0,
                                     reinvestedProfit |-> 0,
                                     daysCompleted |-> 0],
                                    now)
         IN [threw |-> FALSE, value |-> shown.config, config |-> shown.config,
             saves |-> 1 + shown.saves]

\* startDateField is the form field: <<>> when empty, <<d>> for day d
setBudget(cfg, totalBudget, startDateField, now) ==
    IF totalBudget < MinBudget THEN thrown(cfg, 0)
    ELSE IF startDateField = <<>> THEN thrown(cfg, 0)
    ELSE LET shown == updateDisplay([totalBudget |-> totalBudget,
                                     dailyAmount |-> totalBudget \div PlanDays,
                                     startDate |-> startDateField[1],
                                     usedAmount |-> 0,
                                     reinvestedProfit |-> 0,
                                     daysCompleted |-> 0],
                                    now)
         IN [threw |-> FALSE, value |-> shown.config, config |-> shown.config,
             saves |-> 1 + shown.saves]

\* the update that starts the ledger afresh: usedAmount back to 0
applyTopup_ResetsUsed(cfg, additionalAmount, newDailyAmount, remaining, now) ==
    LET oldTotalBudget == cfg.totalBudget
        newTotalBudget == oldTotalBudget + additionalAmount
        shown == updateDisplay([cfg EXCEPT !.totalBudget = newTotalBudget,
                                           !.dailyAmount = newDailyAmount,
                                           !.usedAmount = 0],
                               now)
    IN [threw |-> FALSE,
        value |-> [oldBudget |-> oldTotalBudget,
                   newBudget |-> newTotalBudget,
                   topupAmount |-> additionalAmount,
                   oldDailyAmount |-> oldTotalBudget \div PlanDays,
                   newDailyAmount |-> newDailyAmount,
                   remainingDays |-> remaining.value,
                   usedAmount |-> shown.config.usedAmount,
                   availableAmount |-> getAvailableAmount(shown.config)],
        config |-> shown.config,
        saves |-> remaining.saves + 1 + shown.saves]

\* topupBudget once its checks have passed: the update of the configuration,
\* the save, the display and the record returned; cfg is this.config after
\* getRemainingDays and `remaining` what that call gave
applyTopup(cfg, additionalAmount, newDailyAmount, remaining, now) ==
    LET oldTotalBudget == cfg.totalBudget
        newTotalBudget == oldTotalBudget + additionalAmount
        shown == updateDisplay([cfg EXCEPT !.totalBudget = newTotalBudget,
                                           !.dailyAmount = newDailyAmount],
                               now)
    IN [threw |-> FALSE,
        value |-> [oldBudget |-> oldTotalBudget,
                   newBudget |-> newTotalBudget,
                   topupAmount |-> additionalAmount,
                   oldDailyAmount |-> oldTotalBudget \div PlanDays,
                   newDailyAmount |-> newDailyAmount,
                   remainingDays |-> remaining.value,
                   usedAmount |-> shown.config.usedAmount,
                   availableAmount |-> getAvailableAmount(shown.config)],
        config |-> shown.config,
        saves |-> remaining.saves + 1 + shown.saves]

\* topupBudget with the daily amount spread over the remaining days
topupBudget_PerRemainingDay(cfg, additionalAmount, now) ==
    IF cfg = Null THEN thrown(cfg, 0)
    ELSE IF additionalAmount < MinTopup THEN thrown(cfg, 0)
    ELSE LET remaining == getRemainingDays(cfg, now) IN
         IF remaining.value <= 0 THEN thrown(remaining.config, remaining.saves)
         ELSE applyTopup(remaining.config, additionalAmount,
                         (remaining.config.totalBudget + additionalAmount)
                             \div remaining.value,
                         remaining, now)

\* topupBudget without the test of the remaining days
topupBudget_AfterThePlan(cfg, additionalAmount, now) ==
    IF cfg = Null THEN thrown(cfg, 0)
    ELSE IF additionalAmount < MinTopup THEN thrown(cfg, 0)
    ELSE LET remaining == getRemainingDays(cfg, now) IN
         applyTopup(remaining.config, additionalAmount,
                    (remaining.config.totalBudget + additionalAmount) \div PlanDays,
                    remaining, now)

topupBudget(cfg, additionalAmount, now) ==
    IF cfg = Null THEN thrown(cfg, 0)
    ELSE IF additionalAmount < MinTopup THEN thrown(cfg, 0)
    ELSE LET remaining == getRemainingDays(cfg, now) IN
         IF remaining.value <= 0 THEN thrown(remaining.config, remaining.saves)
         ELSE applyTopup(remaining.config, additionalAmount,
                         (remaining.config.totalBudget + additionalAmount) \div PlanDays,
                         remaining, now)

\* previewTopup projecting the available amount without the reinvested profit
previewTopup_NoReinvested(cfg, additionalAmount, now) ==
    IF cfg = Null THEN thrown(cfg, 0)
    ELSE IF additionalAmount < MinTopup THEN thrown(cfg, 0)
    ELSE LET remaining == getRemainingDays(cfg, now) IN
         IF remaining.value <= 0 THEN thrown(remaining.config, remaining.saves)
         ELSE LET after == remaining.config
                  oldTotalBudget == after.totalBudget
                  newTotalBudget == oldTotalBudget + additionalAmount
                  newDailyAmount == newTotalBudget \div PlanDays
              IN [threw |-> FALSE,
                  value |-> [currentBudget |-> oldTotalBudget,
                             topupAmount |-> additionalAmount,
                             newBudget |-> newTotalBudget,
                             usedAmount |-> after.usedAmount,
                             remainingDays |-> remaining.value,
                             currentDailyAmount |-> after.dailyAmount,
                             newDailyAmount |-> newDailyAmount,
                             availableAmount |-> getAvailableAmount(after),
                             newAvailableAmount |-> newTotalBudget - after.usedAmount],
                  config |-> after,
                  saves |-> remaining.saves]

\* previewTopup: the same checks as topupBudget, then the projection
previewTopup(cfg, additionalAmount, now) ==
    IF cfg = Null THEN thrown(cfg, 0)
    ELSE IF additionalAmount < MinTopup THEN thrown(cfg, 0)
    ELSE LET remaining == getRemainingDays(cfg, now) IN
         IF remaining.value <= 0 THEN thrown(remaining.config, remaining.saves)
         ELSE LET after == remaining.config
                  oldTotalBudget == after.totalBudget
                  newTotalBudget == oldTotalBudget + additionalAmount
                  newDailyAmount == newTotalBudget \div PlanDays
              IN [threw |-> FALSE,
                  value |-> [currentBudget |-> oldTotalBudget,
                             topupAmount |-> additionalAmount,
                             newBudget |-> newTotalBudget,
                             usedAmount |-> after.usedAmount,
                             remainingDays |-> remaining.value,
                             currentDailyAmount |-> after.dailyAmount,
                             newDailyAmount |-> newDailyAmount,
                             availableAmount |-> getAvailableAmount(after),
                             newAvailableAmount |->
                                 newTotalBudget - after.usedAmount + after.reinvestedProfit],
                  config |-> after,
                  saves |-> remaining.saves]

\* resetBudget that clears this.config and leaves the row in the store
budgetManagerResetBudget_KeepsRecord(cfg, row, deleteError) ==
    IF deleteError
    THEN [threw |-> TRUE, value |-> Null, config |-> cfg, saves |-> 0, budget_config |-> row]
    ELSE [threw |-> FALSE, value |-> Null, config |-> Null, saves |-> 0,
          budget_config |-> row]

\* BudgetManager.resetBudget: deletes the rows of the user; when the store
\* answers with an error it throws, this.config and the row staying as they
\* were; otherwise this.config becomes null (updateDisplay then saves nothing)
budgetManagerResetBudget(cfg, row, deleteError) ==
    IF deleteError
    THEN [threw |-> TRUE, value |-> Null, config |-> cfg, saves |-> 0, budget_config |-> row]
    ELSE [threw |-> FALSE, value |-> Null, config |-> Null, saves |-> 0,
          budget_config |-> Null]

\* loadConfig called on the BudgetManager of a page just loaded (this.config
\* is null): without a row this.config stays null; with one it is built
\* from the row, daysCompleted being calculateDaysCompleted() of the still
\* absent config, and updateDisplay follows
loadConfig(row, now) ==
    IF row = Null THEN [threw |-> FALSE, value |-> Null, config |-> Null, saves |-> 0]
    ELSE LET shown == updateDisplay([totalBudget |-> row.total_budget,
                                     dailyAmount |-> row.daily_amount,
                                     startDate |-> row.start_date,
                                     usedAmount |-> row.used_amount,
                                     reinvestedProfit |-> row.reinvested_profit,
                                     daysCompleted |-> calculateDaysCompleted(Null, now).value],
                                    now)
         IN [threw |-> FALSE, value |-> Null, config |-> shown.config, saves |-> shown.saves]

\* ------------------------------------------------------------------------
\* TradingStrategy: execution
\* ------------------------------------------------------------------------
\* {...buyAction, quantity: q, amount: a}
withQuantityAndAmount(buyAction, q, a) ==
    [f \in (DOMAIN buyAction) \cup {"quantity", "amount"} |->
        IF f = "quantity" THEN q ELSE IF f = "amount" THEN a ELSE buyAction[f]]

\* showBuyConfirmation: the value of window.pendingBuyAction after the call
showBuyConfirmation(cfg, buyAction, pending) ==
    LET availableAmount == getAvailableAmount(cfg)
        requiredAmount == buyAction.etf.cmp * buyAction.quantity
        budgetCheck == checkSufficientBudget(cfg, requiredAmount)
        maxQuantity == availableAmount \div buyAction.etf.cmp
    IN IF ~budgetCheck.sufficient /\ ~(maxQuantity > 0) THEN pending
       ELSE LET finalQuantity == IF budgetCheck.sufficient THEN buyAction.quantity
                                 ELSE maxQuantity
            IN withQuantityAndAmount(buyAction, finalQuantity,
                                     buyAction.etf.cmp * finalQuantity)

newHolding(rows, etfId, price, quantity, now) ==
    [id |-> Len(rows) + 1, etf_id |-> etfId, buy_price |-> price,
     quantity |-> quantity, date_purchased |-> now, active |-> TRUE,
     sell_price |-> 0, date_sold |-> 0]

\* executeBuyAction without the budget check: inserts the quantity asked for
executeBuyAction_NoClip(cfg, rows, buyAction, now) ==
    LET finalAmount == buyAction.etf.cmp * buyAction.quantity
        inserted == Append(rows, newHolding(rows, buyAction.etf.id, buyAction.etf.cmp,
                                            buyAction.quantity, now))
        recorded == recordInvestment(cfg, finalAmount, now)
    IN [threw |-> recorded.threw, holdings |-> inserted, config |-> recorded.config,
        saves |-> recorded.saves,
        quantity |-> buyAction.quantity, amount |-> finalAmount]

\* executeBuyAction: what it leaves in the holdings table and the budget, and
\* whether it threw
executeBuyAction(cfg, rows, buyAction, now) ==
    LET availableAmount == getAvailableAmount(cfg)
        requiredAmount == buyAction.etf.cmp * buyAction.quantity
        budgetCheck == checkSufficientBudget(cfg, requiredAmount)
        maxQuantity == availableAmount \div buyAction.etf.cmp
    IN IF ~budgetCheck.sufficient /\ ~(maxQuantity > 0)
       THEN [threw |-> TRUE, holdings |-> rows, config |-> cfg, saves |-> 0,
             quantity |-> buyAction.quantity, amount |-> 0]
       ELSE LET quantity == IF budgetCheck.sufficient THEN buyAction.quantity
                            ELSE maxQuantity
                finalAmount == buyAction.etf.cmp * quantity
                inserted == Append(rows, newHolding(rows, buyAction.etf.id,
                                                    buyAction.etf.cmp, quantity, now))
                recorded == recordInvestment(cfg, finalAmount, now)
            IN [threw |-> recorded.threw, holdings |-> inserted,
                config |-> recorded.config, saves |-> recorded.saves,
                quantity |-> quantity, amount |-> finalAmount]

\* the update matched on the instrument of the row instead of its id
markSold_ByInstrument(rows, id, sellPrice, now) ==
    LET sold == CHOOSE i \in 1 .. Len(rows) : rows[i].id = id IN
    [i \in 1 .. Len(rows) |->
        IF rows[i].etf_id = rows[sold].etf_id
        THEN [rows[i] EXCEPT !.active = FALSE, !.sell_price = sellPrice, !.date_sold = now]
        ELSE rows[i]]

\* update({active: false, sell_price, date_sold}).eq('id', id)
markSold(rows, id, sellPrice, now) ==
    [i \in 1 .. Len(rows) |->
        IF rows[i].id = id
        THEN [rows[i] EXCEPT !.active = FALSE, !.sell_price = sellPrice, !.date_sold = now]
        ELSE rows[i]]

\* executeSellAction that leaves a holding alone that is no longer active
executeSellAction_ActiveOnly(cfg, rows, sellAction, now) ==
    IF \E i \in 1 .. Len(rows) : rows[i].id = sellAction.holding.id /\ ~rows[i].active
    THEN [success |-> TRUE, amount |-> 0, profit |-> 0, holdings |-> rows,
          config |-> cfg, saves |-> 0]
    ELSE LET holding == sellAction.holding
             sellPrice == holding.etfs.cmp
             profit == sellPrice * holding.quantity - holding.buy_price * holding.quantity
             added == IF profit > 0
                      THEN addProfitToReinvestment(cfg,
                               calculateProfitAllocation(profit,
                                   daysBetween(holding.date_purchased, now)), now)
                      ELSE [config |-> cfg, saves |-> 0]
         IN [success |-> TRUE, amount |-> sellPrice * holding.quantity, profit |-> profit,
             holdings |-> markSold(rows, holding.id, sellPrice, now),
             config |-> added.config, saves |-> added.saves]

executeSellAction(cfg, rows, sellAction, now) ==
    LET holding == sellAction.holding
        sellPrice == holding.etfs.cmp
        sellAmount == sellPrice * holding.quantity
        buyAmount == holding.buy_price * holding.quantity
        profit == sellAmount - buyAmount
        holdingPeriod == daysBetween(holding.date_purchased, now)
        added == IF profit > 0
                 THEN addProfitToReinvestment(cfg,
                          calculateProfitAllocation(profit, holdingPeriod), now)
                 ELSE [config |-> cfg, saves |-> 0]
    IN [success |-> TRUE, amount |-> sellAmount, profit |-> profit,
        holdings |-> markSold(rows, holding.id, sellPrice, now),
        config |-> added.config, saves |-> added.saves]

\* ------------------------------------------------------------------------
\* State
\* ------------------------------------------------------------------------
VARIABLES
    etfs,                \* the etfs table, in name order: [id, cmp, dma_20]
    holdings,            \* the holdings table, in insertion order
    config,              \* budgetManager.config: Null or the budget record
    today,               \* the current day
    maxRankToConsider,   \* tradingStrategy.config.maxRankToConsider
    pendingBuyAction,    \* window.pendingBuyAction
    pendingBuyOptions,   \* window.pendingBuyOptions
    selectedETFOption,   \* window.selectedETFOption
    lastStrategy,        \* what calculateDailyStrategy read and returned, when the
                         \* step just taken was an observed run of it; else Null
    lastBuyExecution,    \* the arguments and outcome of executeBuyAction, when
                         \* the step just taken was an observed call; else Null
    budget_config,       \* the user's row of the budget_config table, or Null:
                         \* [total_budget, daily_amount, start_date, used_amount,
                         \*  reinvested_profit]
    ranks,               \* the ranks table: [etf_id, deviation, rank, date]
    lastRanking,         \* what calculateRankings read and left behind, when the
                         \* step just taken was an observed call; else Null
    lastLedger,          \* the call, the config before it and the outcome, when
                         \* the step just taken was an observed call of a
                         \* BudgetManager operation; else Null
    lastStats,           \* the tables getPortfolioStats read and what it
                         \* returned, when the step just taken was an observed
                         \* call; else Null
    lastEndDate,         \* the arguments of Utils.calculateEndDate and the date
                         \* it returned, when the step just taken was an
                         \* observed call; else Null
    requests,            \* the saveConfig calls that were not awaited and have
                         \* not ended: [phase, budgetData], in the order they
                         \* were made
    runs,                \* the runs of calculateDailyStrategy that wait for the
                         \* store to answer the update of the holding they
                         \* sell: [sellAction, today]
    csvImport            \* processCSVFile and window.loadingManager: where the
                         \* import stands (pc), the rows of the file, the loop
                         \* index i, insertedCount, the upserts started, the
                         \* overlay, the flag `cancelled`, the cancel button,
                         \* and the notification shown at the end

vars == <<etfs, holdings, config, today, maxRankToConsider, pendingBuyAction,
          pendingBuyOptions, selectedETFOption, lastStrategy, lastBuyExecution,
          budget_config, ranks, lastRanking, lastLedger, lastStats,
          lastEndDate, requests, runs, csvImport>>

\* what goes on in the background of the handlers
asyncVars == <<requests, runs, csvImport>>

\* no import has been started: new LoadingManager()
NoImport ==
    [pc |-> "idle", totalRows |-> 0, validETFs |-> <<>>, i |-> 0, insertedCount |-> 0,
     started |-> 0, overlay |-> FALSE, cancelled |-> FALSE, cancelDisabled |-> FALSE,
     notification |-> Null]

dialogVars == <<pendingBuyAction, pendingBuyOptions, selectedETFOption>>

etfRow(i, quote) == [id |-> i, cmp |-> quote[1], dma_20 |-> quote[2]]

\* the step taken is not observed
NoOutcome ==
    /\ lastStrategy' = Null
    /\ lastBuyExecution' = Null
    /\ lastRanking' = Null
    /\ lastLedger' = Null
    /\ lastStats' = Null
    /\ lastEndDate' = Null

\* ------------------------------------------------------------------------
\* Operations
\* ------------------------------------------------------------------------
\* the price feed / handleETFForm upsert of an existing instrument
handleETFForm(i, quote) ==
    /\ i \in 1 .. Len(etfs)
    /\ quote[1] > 0 /\ quote[2] > 0
    /\ etfs' = [etfs EXCEPT ![i] = etfRow(etfs[i].id, quote)]
    /\ NoOutcome
    /\ UNCHANGED asyncVars
    /\ UNCHANGED <<budget_config, ranks, holdings, config, today, maxRankToConsider, dialogVars>>

\* handleBudgetForm -> budgetManager.setBudget
handleBudgetForm(amount, startDateField) ==
    /\ \E outcome \in {setBudget(config, amount, startDateField, today)} :
           /\ config' = outcome.config
           /\ budget_config' = saveConfig(budget_config, outcome.config, outcome.saves)
    /\ NoOutcome
    /\ UNCHANGED asyncVars
    /\ UNCHANGED <<ranks, etfs, holdings, today, maxRankToConsider, dialogVars>>

\* handleTopupForm -> budgetManager.topupBudget
handleTopupForm(topupAmount) ==
    /\ config # Null => config.totalBudget + topupAmount <= MaxBudget
    /\ \E outcome \in {topupBudget(config, topupAmount, today)} :
           /\ config' = outcome.config
           /\ budget_config' = saveConfig(budget_config, outcome.config, outcome.saves)
    /\ NoOutcome
    /\ UNCHANGED asyncVars
    /\ UNCHANGED <<ranks, etfs, holdings, today, maxRankToConsider, dialogVars>>

\* app.resetBudget -> budgetManager.resetBudget
resetBudget ==
    /\ \E outcome \in {budgetManagerResetBudget(config, budget_config, FALSE)} :
           /\ config' = outcome.config
           /\ budget_config' = outcome.budget_config
    /\ NoOutcome
    /\ UNCHANGED asyncVars
    /\ UNCHANGED <<ranks, etfs, holdings, today, maxRankToConsider, dialogVars>>

\* executeActions executing the buy decision (the default option) at once
executeActions_AutoBuy(cfg, rows, buy, pending, options, selected, now) ==
    LET chosen == IF buy = Null THEN Null
                  ELSE IF buy.type = "MULTIPLE_OPTIONS" THEN buy.defaultOption ELSE buy
        result == IF chosen = Null THEN Null ELSE executeBuyAction(cfg, rows, chosen, now)
    IN [pendingBuyAction |-> pending, pendingBuyOptions |-> options,
        selectedETFOption |-> selected,
        holdings |-> IF result = Null THEN rows ELSE result.holdings,
        config |-> IF result = Null THEN cfg ELSE result.config,
        saves |-> IF result = Null THEN 0 ELSE result.saves]

\* executeActions, buy half: MULTIPLE_OPTIONS goes to the options dialog,
\* anything else to the confirmation dialog; the holdings table and the
\* budget come out as they went in
executeActions_Buy(cfg, rows, buy, pending, options, selected, now) ==
    IF buy = Null
    THEN [pendingBuyAction |-> pending, pendingBuyOptions |-> options,
          selectedETFOption |-> selected, holdings |-> rows, config |-> cfg,
          saves |-> 0]
    ELSE IF buy.type = "MULTIPLE_OPTIONS"
    THEN [pendingBuyAction |-> pending, pendingBuyOptions |-> buy,
          selectedETFOption |-> buy.defaultOption, holdings |-> rows, config |-> cfg,
          saves |-> 0]
    ELSE [pendingBuyAction |-> showBuyConfirmation(cfg, buy, pending),
          pendingBuyOptions |-> options, selectedETFOption |-> selected,
          holdings |-> rows, config |-> cfg, saves |-> 0]

\* executeActions, sell half: the sell is executed at once
executeActions_Sell(cfg, rows, sell, now) ==
    IF sell = Null
    THEN [sellExecuted |-> FALSE, holdings |-> rows, config |-> cfg, saves |-> 0]
    ELSE LET sellResult == executeSellAction(cfg, rows, sell, now) IN
         [sellExecuted |-> sellResult.success, holdings |-> sellResult.holdings,
          config |-> sellResult.config, saves |-> sellResult.saves]

\* what one run of calculateDailyStrategy reads, decides and leaves behind,
\* `current` being the result of getCurrentHoldings
strategyRun(current) ==
    LET rankedETFs == calculateRankings(etfs)
        actions == applyTradingLogic(rankedETFs, current, config, maxRankToConsider)
        dialogs == executeActions_Buy(config, holdings, actions.buy, pendingBuyAction,
                                      pendingBuyOptions, selectedETFOption, today)
        sold == executeActions_Sell(dialogs.config, dialogs.holdings, actions.sell, today)
        stored == saveConfig(saveConfig(budget_config, dialogs.config, dialogs.saves),
                             sold.config, sold.saves)
    IN [etfs |-> etfs, rankedETFs |-> rankedETFs, holdings |-> current,
        rows |-> holdings, config |-> config, maxRankToConsider |-> maxRankToConsider,
        actions |-> actions, dialogs |-> dialogs, sold |-> sold, stored |-> stored]

calculateDailyStrategy_Effect(run) ==
    /\ pendingBuyAction' = run.dialogs.pendingBuyAction
    /\ pendingBuyOptions' = run.dialogs.pendingBuyOptions
    /\ selectedETFOption' = run.dialogs.selectedETFOption
    /\ holdings' = run.sold.holdings
    /\ config' = run.sold.config
    /\ budget_config' = run.stored
    /\ ranks' = updateRankingsInDatabase(ranks, run.rankedETFs, today)
    /\ UNCHANGED <<etfs, today, maxRankToConsider>>

\* the run in which getCurrentHoldings returned `current`
calculateDailyStrategy_Run(current) ==
    /\ \E run \in {strategyRun(current)} : calculateDailyStrategy_Effect(run)
    /\ NoOutcome
    /\ UNCHANGED asyncVars

\* app.calculateStrategy -> tradingStrategy.calculateDailyStrategy
calculateDailyStrategy ==
    \E current \in anyOrder(getCurrentHoldings(holdings, etfs)) :
        calculateDailyStrategy_Run(current)

\* the same run, observed: lastStrategy keeps what it read and returned
calculateDailyStrategy_Observed ==
    \E current \in anyOrder(getCurrentHoldings(holdings, etfs)) :
        \E run \in {strategyRun(current)} :
        /\ calculateDailyStrategy_Effect(run)
        /\ lastStrategy' = [etfs |-> run.etfs, rankedETFs |-> run.rankedETFs,
                            currentRankings |-> rankRows(run.rankedETFs),
                            holdings |-> run.holdings, rows |-> run.rows,
                            config |-> run.config,
                            maxRankToConsider |-> run.maxRankToConsider,
                            actions |-> run.actions,
                            today |-> today,
                            sellExecuted |-> run.sold.sellExecuted]
        /\ lastBuyExecution' = Null
        /\ lastRanking' = Null
        /\ lastLedger' = Null
        /\ lastStats' = Null
        /\ lastEndDate' = Null
        /\ UNCHANGED asyncVars

\* selectETFOption(optionIndex), index counted from 1 here
selectETFOption(optionIndex) ==
    /\ pendingBuyOptions # Null
    /\ optionIndex >= 1 /\ optionIndex <= Len(pendingBuyOptions.options)
    /\ selectedETFOption' = pendingBuyOptions.options[optionIndex]
    /\ NoOutcome
    /\ UNCHANGED asyncVars
    /\ UNCHANGED <<budget_config, ranks, etfs, holdings, config, today, maxRankToConsider,
                   pendingBuyAction, pendingBuyOptions>>

proceedWithSelectedETF ==
    /\ selectedETFOption # Null
    /\ pendingBuyAction' = showBuyConfirmation(config, selectedETFOption, pendingBuyAction)
    /\ NoOutcome
    /\ UNCHANGED asyncVars
    /\ UNCHANGED <<budget_config, ranks, etfs, holdings, config, today, maxRankToConsider,
                   pendingBuyOptions, selectedETFOption>>

cancelETFSelection ==
    /\ pendingBuyOptions' = Null
    /\ selectedETFOption' = Null
    /\ NoOutcome
    /\ UNCHANGED asyncVars
    /\ UNCHANGED <<budget_config, ranks, etfs, holdings, config, today, maxRankToConsider, pendingBuyAction>>

closeBuyConfirmation ==
    /\ pendingBuyAction' = Null
    /\ NoOutcome
    /\ UNCHANGED asyncVars
    /\ UNCHANGED <<budget_config, ranks, etfs, holdings, config, today, maxRankToConsider,
                   pendingBuyOptions, selectedETFOption>>

\* updateTotalAmount: the quantity field of the dialog was edited;
\* parseInt(value) || 1
updateTotalAmount(fieldValue) ==
    /\ pendingBuyAction # Null
    /\ LET newQuantity == IF fieldValue = 0 THEN 1 ELSE fieldValue IN
       pendingBuyAction' = [pendingBuyAction EXCEPT
                               !.quantity = newQuantity,
                               !.amount = pendingBuyAction.etf.cmp * newQuantity]
    /\ NoOutcome
    /\ UNCHANGED asyncVars
    /\ UNCHANGED <<budget_config, ranks, etfs, holdings, config, today, maxRankToConsider,
                   pendingBuyOptions, selectedETFOption>>

\* confirmBuyAction: refuses when the pending amount exceeds the available
\* amount, otherwise executes the pending buy and, when that succeeds,
\* closes the dialog
confirmBuyAction ==
    /\ pendingBuyAction # Null
    /\ Len(holdings) < MaxLots
    /\ IF pendingBuyAction.amount > getAvailableAmount(config)
       THEN UNCHANGED <<holdings, config, budget_config, pendingBuyAction>>
       ELSE \E result \in {executeBuyAction(config, holdings, pendingBuyAction, today)} :
            /\ holdings' = result.holdings
            /\ config' = result.config
            /\ budget_config' = saveConfig(budget_config, result.config, result.saves)
            /\ pendingBuyAction' = IF result.threw THEN pendingBuyAction ELSE Null
    /\ NoOutcome
    /\ UNCHANGED asyncVars
    /\ UNCHANGED <<ranks, etfs, today, maxRankToConsider, pendingBuyOptions, selectedETFOption>>

\* handleBuyForm: the manual buy form
handleBuyForm(etfId, price, quantity) ==
    /\ Len(holdings) < MaxLots
    /\ \E i \in 1 .. Len(etfs) : etfs[i].id = etfId
    /\ LET investmentAmount == price * quantity IN
       IF price <= 0 \/ quantity < 1
          \/ ~checkSufficientBudget(config, investmentAmount).sufficient
       THEN UNCHANGED <<holdings, config, budget_config>>
       ELSE \E recorded \in {recordInvestment(config, investmentAmount, today)} :
            /\ holdings' = Append(holdings,
                                  newHolding(holdings, etfId, price, quantity, today))
            /\ config' = recorded.config
            /\ budget_config' = saveConfig(budget_config, recorded.config, recorded.saves)
    /\ NoOutcome
    /\ UNCHANGED asyncVars
    /\ UNCHANGED <<ranks, etfs, today, maxRankToConsider, dialogVars>>

\* app.sellHolding: the Sell button of an active holding's row
sellHolding(i) ==
    /\ i \in 1 .. Len(holdings)
    /\ holdings[i].active
    /\ LET holding == holdings[i]
           currentPrice == cmpOf(etfs, holding.etf_id)
           holdingPeriod == today - holding.date_purchased
           profit == currentPrice * holding.quantity - holding.buy_price * holding.quantity
           added == IF profit > 0
                    THEN addProfitToReinvestment(config,
                             calculateProfitAllocation(profit, holdingPeriod), today)
                    ELSE [config |-> config, saves |-> 0]
       IN /\ holdings' = markSold(holdings, holding.id, currentPrice, today)
          /\ config' = added.config
          /\ budget_config' = saveConfig(budget_config, added.config, added.saves)
    /\ NoOutcome
    /\ UNCHANGED asyncVars
    /\ UNCHANGED <<ranks, etfs, today, maxRankToConsider, dialogVars>>

\* tradingStrategy.executeBuyAction(buyAction), called directly and observed
executeBuyAction_Observed(buyAction) ==
    /\ Len(holdings) < MaxLots
    /\ \E result \in {executeBuyAction(config, holdings, buyAction, today)} :
       /\ holdings' = result.holdings
       /\ config' = result.config
       /\ budget_config' = saveConfig(budget_config, result.config, result.saves)
       /\ lastBuyExecution' = [buyAction |-> buyAction, configBefore |-> config,
                               rowsBefore |-> holdings, threw |-> result.threw,
                               quantity |-> result.quantity, amount |-> result.amount]
    /\ lastStrategy' = Null
    /\ lastRanking' = Null
    /\ lastLedger' = Null
    /\ lastStats' = Null
    /\ lastEndDate' = Null
    /\ UNCHANGED asyncVars
    /\ UNCHANGED <<ranks, etfs, today, maxRankToConsider, dialogVars>>

\* app.calculateRankings -> tradingStrategy.calculateRankings, observed:
\* lastRanking keeps the table read, the array returned and the rows the
\* ranks table held for today before the call
calculateRankings_Observed ==
    /\ \E rankedETFs \in {calculateRankings(etfs)} :
       /\ ranks' = updateRankingsInDatabase(ranks, rankedETFs, today)
       /\ lastRanking' = [etfs |-> etfs, rankedETFs |-> rankedETFs, today |-> today,
                          replaced |-> SelectSeq(ranks, LAMBDA r : r.date = today)]
    /\ lastStrategy' = Null
    /\ lastBuyExecution' = Null
    /\ lastLedger' = Null
    /\ lastStats' = Null
    /\ lastEndDate' = Null
    /\ UNCHANGED asyncVars
    /\ UNCHANGED <<budget_config, etfs, holdings, config, today, maxRankToConsider, dialogVars>>

\* a BudgetManager operation called directly and observed
ledgerCall(op, argument, outcome, previewed) ==
    /\ config' = outcome.config
    /\ budget_config' = saveConfig(budget_config, outcome.config, outcome.saves)
    /\ lastLedger' = [op |-> op, argument |-> argument, configBefore |-> config,
                      today |-> today, threw |-> outcome.threw,
                      value |-> outcome.value, saves |-> outcome.saves,
                      previewed |-> previewed]
    /\ lastStrategy' = Null
    /\ lastBuyExecution' = Null
    /\ lastRanking' = Null
    /\ lastStats' = Null
    /\ lastEndDate' = Null
    /\ UNCHANGED asyncVars
    /\ UNCHANGED <<ranks, etfs, holdings, today, maxRankToConsider, dialogVars>>

setBudget_Observed(totalBudget, startDateField) ==
    \E outcome \in {setBudget(config, totalBudget, startDateField, today)} :
        ledgerCall("setBudget", <<totalBudget, startDateField>>, outcome, Null)

\* previewed: the outcome of previewTopup when the call before this one was
\* that preview of the same amount, as in previewTopup() then handleTopupForm
topupBudget_Observed(additionalAmount) ==
    /\ config # Null => config.totalBudget + additionalAmount <= MaxBudget
    /\ \E outcome \in {topupBudget(config, additionalAmount, today)} :
           ledgerCall("topupBudget", additionalAmount, outcome,
                      IF /\ lastLedger # Null
                         /\ lastLedger.op = "previewTopup"
                         /\ lastLedger.argument = additionalAmount
                      THEN [threw |-> lastLedger.threw, value |-> lastLedger.value]
                      ELSE Null)

previewTopup_Observed(additionalAmount) ==
    \E outcome \in {previewTopup(config, additionalAmount, today)} :
        ledgerCall("previewTopup", additionalAmount, outcome, Null)

recordInvestment_Observed(amount) ==
    \E outcome \in {recordInvestment(config, amount, today)} :
        ledgerCall("recordInvestment", amount, outcome, Null)

\* resetBudget called directly and observed; deleteError: the store answers
\* the delete with an error
resetBudget_Observed(deleteError) ==
    \E outcome \in {budgetManagerResetBudget(config, budget_config, deleteError)} :
        /\ config' = outcome.config
        /\ budget_config' = outcome.budget_config
        /\ lastLedger' = [op |-> "resetBudget", argument |-> deleteError,
                          configBefore |-> config, today |-> today,
                          threw |-> outcome.threw, value |-> outcome.value,
                          saves |-> outcome.saves, previewed |-> Null]
        /\ lastStrategy' = Null
        /\ lastBuyExecution' = Null
        /\ lastRanking' = Null
        /\ lastStats' = Null
        /\ lastEndDate' = Null
        /\ UNCHANGED asyncVars
        /\ UNCHANGED <<ranks, etfs, holdings, today, maxRankToConsider, dialogVars>>

\* the page is loaded again: a new BudgetManager, and loadConfig
loadConfig_Observed ==
    \E outcome \in {loadConfig(budget_config, today)} :
        ledgerCall("loadConfig", Null, outcome, Null)

addProfitToReinvestment_Observed(profit, holdingPeriod) ==
    LET profitAllocation == calculateProfitAllocation(profit, holdingPeriod) IN
        /\ (config # Null /\ profitAllocation # Null) =>
               config.reinvestedProfit + profitAllocation.reinvestmentAmount <= MaxReinvested
        /\ \E outcome \in {addProfitToReinvestment(config, profitAllocation, today)} :
               ledgerCall("addProfitToReinvestment", profitAllocation, outcome, Null)

calculateDaysCompleted_Observed ==
    \E counted \in {calculateDaysCompleted(config, today)} :
        ledgerCall("calculateDaysCompleted", Null,
                   [threw |-> FALSE, value |-> counted.value, config |-> counted.config,
                    saves |-> counted.saves],
                   Null)

getRemainingDays_Observed ==
    \E remaining \in {getRemainingDays(config, today)} :
        ledgerCall("getRemainingDays", Null,
                   [threw |-> FALSE, value |-> remaining.value,
                    config |-> remaining.config, saves |-> remaining.saves],
                   Null)

calculateProfitAllocation_Observed(profit, holdingPeriod) ==
    LET profitAllocation == calculateProfitAllocation(profit, holdingPeriod) IN
        ledgerCall("calculateProfitAllocation", <<profit, holdingPeriod>>,
                   [threw |-> FALSE, value |-> profitAllocation, config |-> config,
                    saves |-> 0],
                   Null)

\* Utils.calculateEndDate called and observed
calculateEndDate_Observed(startDate, tradingDays) ==
    /\ lastEndDate' = [startDate |-> startDate, tradingDays |-> tradingDays,
                       value |-> calculateEndDate(startDate, tradingDays)]
    /\ lastStrategy' = Null
    /\ lastBuyExecution' = Null
    /\ lastRanking' = Null
    /\ lastLedger' = Null
    /\ lastStats' = Null
    /\ UNCHANGED asyncVars
    /\ UNCHANGED <<budget_config, ranks, etfs, holdings, config, today,
                   maxRankToConsider, dialogVars>>

\* loadDashboardData -> tradingStrategy.getPortfolioStats, observed
getPortfolioStats_Observed ==
    /\ lastStats' = [holdings |-> holdings, etfs |-> etfs,
                     stats |-> getPortfolioStats(holdings, etfs)]
    /\ lastEndDate' = Null
    /\ UNCHANGED asyncVars
    /\ lastStrategy' = Null
    /\ lastBuyExecution' = Null
    /\ lastRanking' = Null
    /\ lastLedger' = Null
    /\ UNCHANGED <<budget_config, ranks, etfs, holdings, config, today,
                   maxRankToConsider, dialogVars>>

\* ------------------------------------------------------------------------
\* The store seen request by request.  In the operations below a saveConfig
\* call that the code awaits is made and answered within the step of the
\* operation, with or without an error; a saveConfig call that the code
\* does not await joins `requests` and goes on in later steps: its select
\* is answered, its update or insert is sent, and that is answered.
\* ------------------------------------------------------------------------
\* the saveConfig calls an operation made without awaiting them, each with
\* the budgetData it built from this.config when it was called
saveConfigCalls(cfg, saves) ==
    IF cfg = Null THEN <<>>
    ELSE [i \in 1 .. saves |-> [phase |-> "select", budgetData |-> budgetData(cfg)]]

\* the select of a saveConfig call answered: the call sends an update when
\* the answer holds a row and no error, an insert otherwise
afterSelect(request, row, selectError) ==
    [request EXCEPT !.phase = IF ~selectError /\ row # Null THEN "update" ELSE "insert"]

\* the user's row after the write of a saveConfig call: an update changes
\* the row there is, an insert adds a row (the newest, which loadConfig reads)
afterWrite(request, row, writeError) ==
    IF writeError THEN row
    ELSE IF request.phase = "update" THEN (IF row = Null THEN Null ELSE request.budgetData)
    ELSE request.budgetData

\* request i is answered by the store; a saveConfig call whose write fails
\* throws `Failed to save budget configuration to database`, and nothing
\* awaits or catches it
storeAnswers(i, error) ==
    /\ i \in 1 .. Len(requests)
    \* of calls that are alike the earliest is taken: they cannot be told apart
    /\ \A j \in 1 .. i - 1 : requests[j] # requests[i]
    /\ IF requests[i].phase = "select"
       THEN /\ requests' = [requests EXCEPT ![i] = afterSelect(requests[i], budget_config, error)]
            /\ UNCHANGED budget_config
       ELSE /\ requests' = SubSeq(requests, 1, i - 1) \o SubSeq(requests, i + 1, Len(requests))
            /\ budget_config' = afterWrite(requests[i], budget_config, error)
    \* lastLedger keeps the end of a saveConfig call: whether it threw, and
    \* whether a caller awaited it
    /\ lastLedger' = IF requests[i].phase = "select" THEN Null
                     ELSE [op |-> "saveConfig", argument |-> requests[i].budgetData,
                           configBefore |-> config, today |-> today, threw |-> error,
                           value |-> Null, saves |-> 0, previewed |-> Null,
                           saveError |-> error, awaited |-> FALSE]
    /\ lastStrategy' = Null
    /\ lastBuyExecution' = Null
    /\ lastRanking' = Null
    /\ lastStats' = Null
    /\ lastEndDate' = Null
    /\ UNCHANGED <<ranks, etfs, holdings, config, today, maxRankToConsider, dialogVars>>
    /\ UNCHANGED <<runs, csvImport>>

\* setBudget with its awaited saveConfig answered by the store: when the save
\* fails setBudget throws after this.config was assigned and before
\* updateDisplay; `requests` are the calls updateDisplay leaves behind
setBudgetStored(cfg, row, totalBudget, startDateField, now, saveError) ==
    LET done == setBudget(cfg, totalBudget, startDateField, now) IN
    IF done.threw
    THEN [threw |-> TRUE, value |-> Null, config |-> cfg, budget_config |-> row,
          requests |-> <<>>, saveAwaited |-> FALSE]
    ELSE IF saveError
    THEN [threw |-> TRUE, value |-> Null,
          config |-> [done.config EXCEPT !.daysCompleted = 0],
          budget_config |-> row, requests |-> <<>>, saveAwaited |-> TRUE]
    ELSE [threw |-> FALSE, value |-> done.value, config |-> done.config,
          budget_config |-> budgetData(done.config),
          requests |-> saveConfigCalls(done.config, done.saves - 1),
          saveAwaited |-> TRUE]

\* topupBudget with its awaited saveConfig answered by the store:
\* getRemainingDays comes first and leaves a call with the budget as it was;
\* when the awaited save fails topupBudget throws after totalBudget and
\* dailyAmount were assigned
topupBudgetStored(cfg, row, additionalAmount, now, saveError) ==
    LET done == topupBudget(cfg, additionalAmount, now)
        remaining == getRemainingDays(cfg, now)
        before == saveConfigCalls(remaining.config, remaining.saves)
    IN IF done.threw
       THEN [threw |-> TRUE, value |-> Null, config |-> done.config,
             budget_config |-> row,
             requests |-> saveConfigCalls(done.config, done.saves),
             saveAwaited |-> FALSE]
       ELSE IF saveError
       THEN [threw |-> TRUE, value |-> Null,
             config |-> [remaining.config EXCEPT
                            !.totalBudget = done.config.totalBudget,
                            !.dailyAmount = done.config.dailyAmount],
             budget_config |-> row, requests |-> before, saveAwaited |-> TRUE]
       ELSE [threw |-> FALSE, value |-> done.value, config |-> done.config,
             budget_config |-> budgetData(done.config),
             requests |-> before
                 \o saveConfigCalls(done.config, done.saves - remaining.saves - 1),
             saveAwaited |-> TRUE]

\* a BudgetManager operation with an awaited save, called and observed;
\* lastLedger.saveError says that the save was reached and failed
storedCall(op, argument, saveError, outcome) ==
    /\ Len(requests) + Len(outcome.requests) <= MaxRequests
    /\ config' = outcome.config
    /\ budget_config' = outcome.budget_config
    /\ requests' = requests \o outcome.requests
    /\ lastLedger' = [op |-> op, argument |-> argument, configBefore |-> config,
                      today |-> today, threw |-> outcome.threw,
                      value |-> outcome.value, saves |-> Len(outcome.requests),
                      previewed |-> Null,
                      saveError |-> outcome.saveAwaited /\ saveError]
    /\ lastStrategy' = Null
    /\ lastBuyExecution' = Null
    /\ lastRanking' = Null
    /\ lastStats' = Null
    /\ lastEndDate' = Null
    /\ UNCHANGED <<ranks, etfs, holdings, today, maxRankToConsider, dialogVars>>
    /\ UNCHANGED <<runs, csvImport>>

setBudget_Stored(totalBudget, startDateField, saveError) ==
    \E outcome \in {setBudgetStored(config, budget_config, totalBudget, startDateField,
                                     today, saveError)} :
        storedCall("setBudget", <<totalBudget, startDateField>>, saveError, outcome)

topupBudget_Stored(additionalAmount, saveError) ==
    /\ config # Null => config.totalBudget + additionalAmount <= MaxBudget
    /\ \E outcome \in {topupBudgetStored(config, budget_config, additionalAmount, today,
                                          saveError)} :
           storedCall("topupBudget", additionalAmount, saveError, outcome)

\* executeBuyAction with the insert answered by the store: an error is
\* thrown before recordInvestment; the quantity it clipped stays in the
\* buy action it was given
\* executeBuyAction whose failed insert leaves the row in the table
executeBuyActionStored_RowKept(cfg, rows, buyAction, now, insertError) ==
    LET done == executeBuyAction(cfg, rows, buyAction, now) IN
    IF insertError /\ done.holdings # rows
    THEN [threw |-> TRUE, holdings |-> done.holdings, config |-> cfg, requests |-> <<>>,
          quantity |-> done.quantity, amount |-> 0]
    ELSE IF done.threw
    THEN [threw |-> TRUE, holdings |-> done.holdings, config |-> done.config,
          requests |-> <<>>, quantity |-> done.quantity, amount |-> 0]
    ELSE [threw |-> FALSE, holdings |-> done.holdings, config |-> done.config,
          requests |-> saveConfigCalls(done.config, done.saves),
          quantity |-> done.quantity, amount |-> done.amount]

executeBuyActionStored(cfg, rows, buyAction, now, insertError) ==
    LET done == executeBuyAction(cfg, rows, buyAction, now) IN
    IF insertError /\ done.holdings # rows
    THEN [threw |-> TRUE, holdings |-> rows, config |-> cfg, requests |-> <<>>,
          quantity |-> done.quantity, amount |-> 0]
    ELSE IF done.threw
    THEN [threw |-> TRUE, holdings |-> done.holdings, config |-> done.config,
          requests |-> <<>>, quantity |-> done.quantity, amount |-> 0]
    ELSE [threw |-> FALSE, holdings |-> done.holdings, config |-> done.config,
          requests |-> saveConfigCalls(done.config, done.saves),
          quantity |-> done.quantity, amount |-> done.amount]

\* confirmBuyAction with the store answering: lastBuyExecution keeps the
\* call of executeBuyAction and `success`, whether the success notification
\* was shown and the dialog closed
confirmBuyAction_Stored(insertError) ==
    /\ pendingBuyAction # Null
    /\ Len(holdings) < MaxLots
    /\ IF pendingBuyAction.amount > getAvailableAmount(config)
       THEN /\ UNCHANGED <<holdings, config, pendingBuyAction, requests>>
            /\ lastBuyExecution' = Null
       ELSE \E result \in {executeBuyActionStored(config, holdings, pendingBuyAction,
                                                   today, insertError)} :
            /\ Len(requests) + Len(result.requests) <= MaxRequests
            /\ holdings' = result.holdings
            /\ config' = result.config
            /\ requests' = requests \o result.requests
            /\ pendingBuyAction' = IF result.threw
                                   THEN [pendingBuyAction EXCEPT !.quantity = result.quantity]
                                   ELSE Null
            /\ lastBuyExecution' = [buyAction |-> pendingBuyAction, configBefore |-> config,
                                    rowsBefore |-> holdings, threw |-> result.threw,
                                    quantity |-> result.quantity,
                                    amount |-> result.amount,
                                    insertError |-> insertError,
                                    success |-> ~result.threw]
    /\ lastStrategy' = Null
    /\ lastRanking' = Null
    /\ lastLedger' = Null
    /\ lastStats' = Null
    /\ lastEndDate' = Null
    /\ UNCHANGED <<budget_config, ranks, etfs, today, maxRankToConsider,
                   pendingBuyOptions, selectedETFOption>>
    /\ UNCHANGED <<runs, csvImport>>

\* handleBuyForm with the store answering: a failed insert is caught and
\* shown as `Failed to buy ETF`; lastBuyExecution keeps the purchase and
\* whether `ETF purchased successfully` was shown
handleBuyForm_Stored(etfId, price, quantity, insertError) ==
    /\ Len(holdings) < MaxLots
    /\ \E i \in 1 .. Len(etfs) : etfs[i].id = etfId
    /\ LET investmentAmount == price * quantity IN
       IF price <= 0 \/ quantity < 1
          \/ ~checkSufficientBudget(config, investmentAmount).sufficient
       THEN /\ UNCHANGED <<holdings, config, requests>>
            /\ lastBuyExecution' = Null
       ELSE \E recorded \in {recordInvestment(config, investmentAmount, today)} :
            /\ Len(requests) + recorded.saves <= MaxRequests
            /\ holdings' = IF insertError THEN holdings
                           ELSE Append(holdings,
                                       newHolding(holdings, etfId, price, quantity, today))
            /\ config' = IF insertError THEN config ELSE recorded.config
            /\ requests' = IF insertError THEN requests
                           ELSE requests \o saveConfigCalls(recorded.config, recorded.saves)
            /\ lastBuyExecution' = [buyAction |-> [type |-> "BUY", quantity |-> quantity,
                                                   amount |-> investmentAmount],
                                    configBefore |-> config, rowsBefore |-> holdings,
                                    threw |-> insertError, quantity |-> quantity,
                                    amount |-> IF insertError THEN 0 ELSE investmentAmount,
                                    insertError |-> insertError,
                                    success |-> ~insertError]
    /\ lastStrategy' = Null
    /\ lastRanking' = Null
    /\ lastLedger' = Null
    /\ lastStats' = Null
    /\ lastEndDate' = Null
    /\ UNCHANGED <<budget_config, ranks, etfs, today, maxRankToConsider, dialogVars>>
    /\ UNCHANGED <<runs, csvImport>>

\* a run of calculateDailyStrategy whose update of the sold holding is
\* answered by the store: executeSellAction throws on an error,
\* executeActions catches it and puts its message into results.errors
strategyRunStored(run, updateError) ==
    LET failed == run.actions.sell # Null /\ updateError
    IN [run |-> [run EXCEPT !.sold = IF failed
                                     THEN [sellExecuted |-> FALSE,
                                           holdings |-> run.dialogs.holdings,
                                           config |-> run.dialogs.config, saves |-> 0]
                                     ELSE @],
        errors |-> IF failed THEN <<"update">> ELSE <<>>]

\* app.calculateStrategy with the store answering: the saveConfig calls of
\* addProfitToReinvestment are left behind; lastStrategy keeps the run, the
\* requests that had not ended when it began, results.errors, and the
\* notification shown at the end
calculateDailyStrategy_Stored(updateError) ==
    \E current \in anyOrder(getCurrentHoldings(holdings, etfs)) :
        \E run \in {strategyRun(current)} :
        \E stored \in {strategyRunStored(run, updateError)} :
        /\ Len(requests) + stored.run.sold.saves <= MaxRequests
        /\ pendingBuyAction' = stored.run.dialogs.pendingBuyAction
        /\ pendingBuyOptions' = stored.run.dialogs.pendingBuyOptions
        /\ selectedETFOption' = stored.run.dialogs.selectedETFOption
        /\ holdings' = stored.run.sold.holdings
        /\ config' = stored.run.sold.config
        /\ requests' = requests \o saveConfigCalls(stored.run.sold.config,
                                                   stored.run.sold.saves)
        /\ ranks' = updateRankingsInDatabase(ranks, stored.run.rankedETFs, today)
        /\ lastStrategy' = [etfs |-> etfs, holdings |-> current, rows |-> holdings,
                            config |-> config, actions |-> stored.run.actions,
                            today |-> today, requests |-> requests,
                            sellExecuted |-> stored.run.sold.sellExecuted,
                            errors |-> stored.errors,
                            notification |-> "success"]
        /\ lastBuyExecution' = Null
        /\ lastRanking' = Null
        /\ lastLedger' = Null
        /\ lastStats' = Null
        /\ lastEndDate' = Null
        /\ UNCHANGED <<budget_config, etfs, today, maxRankToConsider>>
        /\ UNCHANGED <<runs, csvImport>>

\* the page is loaded again: the requests that have not reached the store
\* are abandoned, and loadConfig of the new BudgetManager reads the row; a
\* read that fails leaves this.config null
reloadPage(readError) ==
    /\ \E outcome \in {loadConfig(IF readError THEN Null ELSE budget_config, today)} :
           /\ Len(saveConfigCalls(outcome.config, outcome.saves)) <= MaxRequests
           /\ config' = outcome.config
           /\ requests' = saveConfigCalls(outcome.config, outcome.saves)
    /\ pendingBuyAction' = Null
    /\ pendingBuyOptions' = Null
    /\ selectedETFOption' = Null
    /\ NoOutcome
    /\ UNCHANGED <<budget_config, ranks, etfs, holdings, today, maxRankToConsider>>
    /\ runs' = <<>>
    /\ csvImport' = NoImport

\* loadConfig called on a BudgetManager that may hold a config already (the
\* one of budget.js lives as long as the page): row is the newest row of
\* this.userId. A read that fails or finds no row leaves this.config as it
\* is. With a row, calculateDaysCompleted() runs while this.config is still
\* the former one: it counts from that one's start date and calls
\* saveConfig with that one's data; then this.config is the row's, and
\* updateDisplay follows
loadConfigOver(cfg, row, readError, now) ==
    IF readError \/ row = Null
    THEN [threw |-> FALSE, value |-> Null, config |-> cfg, budget_config |-> row,
          requests |-> <<>>, saveAwaited |-> FALSE]
    ELSE LET counted == calculateDaysCompleted(cfg, now)
             shown == updateDisplay([totalBudget |-> row.total_budget,
                                     dailyAmount |-> row.daily_amount,
                                     startDate |-> row.start_date,
                                     usedAmount |-> row.used_amount,
                                     reinvestedProfit |-> row.reinvested_profit,
                                     daysCompleted |-> counted.value],
                                    now)
         IN [threw |-> FALSE, value |-> Null, config |-> shown.config,
             budget_config |-> row,
             requests |-> saveConfigCalls(counted.config, counted.saves)
                              \o saveConfigCalls(shown.config, shown.saves),
             saveAwaited |-> FALSE]

\* onAuthStateChange(SIGNED_IN or TOKEN_REFRESHED) -> initializeWithAuth ->
\* init: setUserId and loadConfig. budget_config becomes the row the store
\* has for the user signed in (the same row when the user is the same);
\* lastLedger keeps the row, whether the read failed, and the config before
initializeWithAuth(row, readError) ==
    /\ requests = <<>>
    /\ runs = <<>>
    /\ csvImport = NoImport
    /\ \E outcome \in {loadConfigOver(config, row, readError, today)} :
           storedCall("loadConfig", [row |-> row, readError |-> readError],
                      FALSE, outcome)

\* a run of calculateDailyStrategy up to the await inside executeSellAction:
\* rankings calculated and stored, the active holdings read, the actions
\* decided, the buy dialog shown, the update of the holding to sell sent. A
\* run that sells nothing ends here; nothing keeps a second run from
\* beginning while the first waits
calculateDailyStrategy_Begins ==
    \E current \in anyOrder(getCurrentHoldings(holdings, etfs)) :
        \E run \in {strategyRun(current)} :
        /\ Len(runs) < MaxRuns
        /\ pendingBuyAction' = run.dialogs.pendingBuyAction
        /\ pendingBuyOptions' = run.dialogs.pendingBuyOptions
        /\ selectedETFOption' = run.dialogs.selectedETFOption
        /\ config' = run.dialogs.config
        /\ budget_config' = saveConfig(budget_config, run.dialogs.config, run.dialogs.saves)
        /\ ranks' = updateRankingsInDatabase(ranks, run.rankedETFs, today)
        /\ runs' = IF run.actions.sell = Null THEN runs
                   ELSE Append(runs, [sellAction |-> run.actions.sell, today |-> today])
        /\ NoOutcome
        /\ UNCHANGED <<etfs, holdings, today, maxRankToConsider, requests, csvImport>>

\* the store answers the update of run k: on an error executeSellAction
\* throws and executeActions records it; otherwise the row is updated by its
\* id, whatever its state, and the profit is added to the budget in memory
\* now. lastStrategy keeps the sell action, the row and the config as they
\* were before the answer, and whether the sell was executed
calculateDailyStrategy_Ends(k, updateError) ==
    /\ k \in 1 .. Len(runs)
    /\ LET run == runs[k]
           sold == IF updateError
                   THEN [success |-> FALSE, holdings |-> holdings, config |-> config,
                         saves |-> 0]
                   ELSE executeSellAction(config, holdings, run.sellAction, run.today)
       IN /\ holdings' = sold.holdings
          /\ config' = sold.config
          /\ budget_config' = saveConfig(budget_config, sold.config, sold.saves)
          /\ lastStrategy' = [sellAction |-> run.sellAction,
                              rowBefore |-> holdings[CHOOSE i \in 1 .. Len(holdings) :
                                                holdings[i].id = run.sellAction.holding.id],
                              configBefore |-> config,
                              sellExecuted |-> sold.success,
                              errors |-> IF updateError THEN <<"update">> ELSE <<>>,
                              today |-> run.today]
    /\ runs' = SubSeq(runs, 1, k - 1) \o SubSeq(runs, k + 1, Len(runs))
    /\ lastBuyExecution' = Null
    /\ lastRanking' = Null
    /\ lastLedger' = Null
    /\ lastStats' = Null
    /\ lastEndDate' = Null
    /\ UNCHANGED <<ranks, etfs, today, maxRankToConsider, dialogVars, requests, csvImport>>

\* ------------------------------------------------------------------------
\* CSV import: ETFTradingApp.processCSVFile and LoadingManager
\* ------------------------------------------------------------------------
\* upsert({name, cmp, dma_20, date_updated}, {onConflict: 'name'})
upsertETF(table, etf) ==
    IF \E k \in 1 .. Len(table) : table[k].id = etf.id
    THEN [k \in 1 .. Len(table) |-> IF table[k].id = etf.id THEN etf ELSE table[k]]
    ELSE Append(table, etf)

\* the catch of processCSVFile: hide() and the notification, which says
\* `cancelled` only for the error thrown by a cancellation check
importThrew(import, message) ==
    [import EXCEPT !.pc = "ended", !.overlay = FALSE,
                   !.notification = IF message = "Operation cancelled by user"
                                    THEN "CSV processing was cancelled"
                                    ELSE "Failed to process CSV"]

\* the head of the insert loop for index import.i: past the last
\* instrument the loop is left for the completion message and its wait;
\* otherwise `cancelled` is checked and the upsert of the instrument started
insertLoop(import) ==
    IF ~(import.i < Len(import.validETFs)) THEN [import EXCEPT !.pc = "completing"]
    ELSE IF import.cancelled THEN importThrew(import, "Operation cancelled by user")
    ELSE [import EXCEPT !.pc = "upserting", !.started = @ + 1]

\* what no step of the import touches
importFrame ==
    /\ NoOutcome
    /\ UNCHANGED <<budget_config, ranks, holdings, config, today, maxRankToConsider,
                   dialogVars, requests, runs>>

\* processCSVFile up to the await of readFileAsText: loadingManager.show()
\* puts `cancelled` back to false and shows the overlay
processCSVFile(file) ==
    /\ csvImport.pc \in {"idle", "ended"}
    /\ csvImport' = [NoImport EXCEPT !.pc = "reading", !.totalRows = file.totalRows,
                                     !.validETFs = file.validETFs, !.overlay = TRUE,
                                     !.cancelDisabled = csvImport.cancelDisabled]
    /\ UNCHANGED etfs
    /\ importFrame

\* the file is read (or not): the first cancellation check, then the wait
\* before the parsing
fileRead(readError) ==
    /\ csvImport.pc = "reading"
    /\ csvImport' = IF readError THEN importThrew(csvImport, "Failed to read file")
                    ELSE IF csvImport.cancelled
                    THEN importThrew(csvImport, "Operation cancelled by user")
                    ELSE [csvImport EXCEPT !.pc = "parsing"]
    /\ UNCHANGED etfs
    /\ importFrame

\* Papa.parse and the cleaning loop, which checks `cancelled` once for
\* every row of the file; then the wait before the filtering
parseCSV ==
    /\ csvImport.pc = "parsing"
    /\ csvImport' = IF csvImport.totalRows > 0 /\ csvImport.cancelled
                    THEN importThrew(csvImport, "Operation cancelled by user")
                    ELSE [csvImport EXCEPT !.pc = "filtering"]
    /\ UNCHANGED etfs
    /\ importFrame

\* applyFilters and convertToETFObjects, with no cancellation check; then
\* the wait before the insert loop
applyFilters ==
    /\ csvImport.pc = "filtering"
    /\ csvImport' = IF Len(csvImport.validETFs) = 0
                    THEN importThrew(csvImport, "No valid ETFs found in CSV file")
                    ELSE [csvImport EXCEPT !.pc = "inserting"]
    /\ UNCHANGED etfs
    /\ importFrame

\* the wait is over: the insert loop begins
insertBegins ==
    /\ csvImport.pc = "inserting"
    /\ csvImport' = insertLoop(csvImport)
    /\ UNCHANGED etfs
    /\ importFrame

\* the store answers the upsert of instrument i + 1: insertedCount counts
\* it unless there was an error; after every twentieth instrument,
\* beginning with the first, the loop waits, otherwise it goes on
upsertAnswered(error) ==
    /\ csvImport.pc = "upserting"
    /\ etfs' = IF error THEN etfs
               ELSE upsertETF(etfs, csvImport.validETFs[csvImport.i + 1])
    /\ LET counted == [csvImport EXCEPT
                          !.insertedCount = IF error THEN @ ELSE @ + 1,
                          !.i = @ + 1]
       IN csvImport' = IF csvImport.i % 20 = 0
                       THEN [counted EXCEPT !.pc = "pausing"]
                       ELSE insertLoop(counted)
    /\ importFrame

\* the wait inside the loop is over
pauseEnds ==
    /\ csvImport.pc = "pausing"
    /\ csvImport' = insertLoop(csvImport)
    /\ UNCHANGED etfs
    /\ importFrame

\* the wait that shows the completion is over: hide(), and the success
\* notification
importCompletes ==
    /\ csvImport.pc = "completing"
    /\ csvImport' = [csvImport EXCEPT !.pc = "ended", !.overlay = FALSE,
                                      !.notification = "Successfully processed"]
    /\ UNCHANGED etfs
    /\ importFrame

\* the cancel button of the overlay -> cancelCSVProcessing ->
\* loadingManager.cancel(), which disables the button
cancel ==
    /\ csvImport.overlay
    /\ ~csvImport.cancelDisabled
    /\ csvImport' = [csvImport EXCEPT !.cancelled = TRUE, !.cancelDisabled = TRUE]
    /\ UNCHANGED etfs
    /\ importFrame

\* midnight passes: Utils.getTodayString() and new Date() give the next day
nextDay(lastDay) ==
    /\ today < lastDay
    /\ today' = today + 1
    /\ NoOutcome
    /\ UNCHANGED asyncVars
    /\ UNCHANGED <<budget_config, ranks, etfs, holdings, config, maxRankToConsider, dialogVars>>

\* ------------------------------------------------------------------------
\* Spec: the application driven through its forms and dialogs, one
\* instrument on the market
\* ------------------------------------------------------------------------
Init ==
    /\ etfs = <<etfRow(1, <<975, 1000>>)>>
    /\ holdings = <<>>
    /\ config = Null
    /\ today = 1
    /\ maxRankToConsider = DefaultMaxRank
    /\ pendingBuyAction = Null
    /\ pendingBuyOptions = Null
    /\ selectedETFOption = Null
    /\ lastStrategy = Null
    /\ lastBuyExecution = Null
    /\ budget_config = Null
    /\ ranks = <<>>
    /\ lastRanking = Null
    /\ lastLedger = Null
    /\ lastStats = Null
    /\ lastEndDate = Null
    /\ requests = <<>>
    /\ runs = <<>>
    /\ csvImport = NoImport

Next ==
    \/ \E i \in 1 .. Len(etfs), quote \in FeedQuotes : handleETFForm(i, quote)
    \/ \E amount \in BudgetAmounts, d \in StartDates : handleBudgetForm(amount, <<d>>)
    \/ \E amount \in BudgetAmounts : handleBudgetForm(amount, <<>>)
    \/ \E amount \in TopupAmounts : handleTopupForm(amount)
    \/ resetBudget
    \/ calculateDailyStrategy
    \/ \E k \in 1 .. Len(etfs) : selectETFOption(k)
    \/ proceedWithSelectedETF
    \/ cancelETFSelection
    \/ closeBuyConfirmation
    \/ \E q \in QuantityInputs : updateTotalAmount(q)
    \/ confirmBuyAction
    \/ \E e \in 1 .. Len(etfs), p \in ManualPrices, q \in ManualQuantities :
           handleBuyForm(etfs[e].id, p, q)
    \/ \E i \in 1 .. MaxLots : sellHolding(i)

Spec == Init /\ [][Next]_vars

\* ------------------------------------------------------------------------
\* Drawn tables
\* ------------------------------------------------------------------------
\* every etfs table of n instruments with quotes from a set
marketsOf(n, quotes) == {[i \in 1 .. n |-> etfRow(i, q[i])] : q \in [1 .. n -> quotes]}

\* every holdings table of at most maxLots active lots of one unit bought at
\* 1000, of instruments 1 .. n, on days 1 .. lastDay; rows are in insertion
\* order, so purchase days never decrease along the table
holdingsTablesOf(n, maxLots, lastDay) ==
    LET shapes == UNION {[1 .. k -> (1 .. n) \X (1 .. lastDay)] : k \in 0 .. maxLots}
        ordered == {f \in shapes : \A i \in 1 .. Len(f) - 1 : f[i][2] <= f[i + 1][2]}
    IN {[i \in 1 .. Len(f) |->
            [id |-> i, etf_id |-> f[i][1], buy_price |-> 1000, quantity |-> 1,
             date_purchased |-> f[i][2], active |-> TRUE, sell_price |-> 0,
             date_sold |-> 0]] : f \in ordered}

\* no budget, and a budget of 12500 (250 a day)
DrawnBudgets == {Null, setBudget(Null, 12500, <<1>>, 1).config}

\* ------------------------------------------------------------------------
\* SpecDecide: decision cycles started from any market of three
\* instruments, either rank limit, a budget or none, and any holdings table
\* of lots bought on the first day
\* ------------------------------------------------------------------------
InitDecide ==
    /\ etfs \in marketsOf(3, Quotes)
    /\ holdings \in holdingsTablesOf(3, MaxLots, 1)
    /\ config \in DrawnBudgets
    /\ today = 1
    /\ maxRankToConsider \in RankLimits
    /\ pendingBuyAction = Null
    /\ pendingBuyOptions = Null
    /\ selectedETFOption = Null
    /\ lastStrategy = Null
    /\ lastBuyExecution = Null
    /\ budget_config = IF config = Null THEN Null ELSE budgetData(config)
    /\ ranks = <<>>
    /\ lastRanking = Null
    /\ lastLedger = Null
    /\ lastStats = Null
    /\ lastEndDate = Null
    /\ requests = <<>>
    /\ runs = <<>>
    /\ csvImport = NoImport

NextDecide == calculateDailyStrategy_Observed

SpecDecide == InitDecide /\ [][NextDecide]_vars

\* ------------------------------------------------------------------------
\* SpecSell: decision cycles started from a budget of 12500, any market of
\* two instruments and any holdings table of lots bought on days 1 .. MaxDay
\* ------------------------------------------------------------------------
InitSell ==
    /\ etfs \in marketsOf(2, SellQuotes)
    /\ holdings \in holdingsTablesOf(2, MaxDrawnLots, MaxDay)
    /\ config = setBudget(Null, 12500, <<1>>, 1).config
    /\ today = MaxDay
    /\ maxRankToConsider = DefaultMaxRank
    /\ pendingBuyAction = Null
    /\ pendingBuyOptions = Null
    /\ selectedETFOption = Null
    /\ lastStrategy = Null
    /\ lastBuyExecution = Null
    /\ budget_config = IF config = Null THEN Null ELSE budgetData(config)
    /\ ranks = <<>>
    /\ lastRanking = Null
    /\ lastLedger = Null
    /\ lastStats = Null
    /\ lastEndDate = Null
    /\ requests = <<>>
    /\ runs = <<>>
    /\ csvImport = NoImport

NextSell == calculateDailyStrategy_Observed

SpecSell == InitSell /\ [][NextSell]_vars

\* ------------------------------------------------------------------------
\* SpecExecute: executeBuyAction called with any buy action, from a budget
\* of 5000 of which a manual buy has used part, or from no budget
\* ------------------------------------------------------------------------
\* the state after setBudget(5000) and a manual buy of q units at 1000
afterManualBuy(q) ==
    [config |-> recordInvestment(setBudget(Null, 5000, <<1>>, 1).config, 1000 * q, 1).config,
     holdings |-> IF q = 0 THEN <<>> ELSE <<newHolding(<<>>, 1, 1000, q, 1)>>]

UsedLots == {0, 3, 4, 5}

InitExecute ==
    /\ etfs \in marketsOf(2, Quotes)
    /\ \/ config = Null /\ holdings = <<>>
       \/ \E q \in UsedLots : /\ config = afterManualBuy(q).config
                              /\ holdings = afterManualBuy(q).holdings
    /\ today = 1
    /\ maxRankToConsider = DefaultMaxRank
    /\ pendingBuyAction = Null
    /\ pendingBuyOptions = Null
    /\ selectedETFOption = Null
    /\ lastStrategy = Null
    /\ lastBuyExecution = Null
    /\ budget_config = IF config = Null THEN Null ELSE budgetData(config)
    /\ ranks = <<>>
    /\ lastRanking = Null
    /\ lastLedger = Null
    /\ lastStats = Null
    /\ lastEndDate = Null
    /\ requests = <<>>
    /\ runs = <<>>
    /\ csvImport = NoImport

DirectBuys ==
    {[type |-> "BUY", etf |-> calculateRankings(etfs)[i], quantity |-> q, rank |-> i] :
        i \in 1 .. Len(etfs), q \in DirectQuantities}

NextExecute == \E buyAction \in DirectBuys : executeBuyAction_Observed(buyAction)

SpecExecute == InitExecute /\ [][NextExecute]_vars

\* ------------------------------------------------------------------------
\* SpecRank: rankings calculated again and again over a table of two
\* instruments while the feed moves the prices and the days pass
\* ------------------------------------------------------------------------
InitRank ==
    /\ etfs \in marketsOf(2, RankQuotes)
    /\ holdings = <<>>
    /\ config = Null
    /\ today = 1
    /\ maxRankToConsider = DefaultMaxRank
    /\ pendingBuyAction = Null
    /\ pendingBuyOptions = Null
    /\ selectedETFOption = Null
    /\ lastStrategy = Null
    /\ lastBuyExecution = Null
    /\ budget_config = Null
    /\ ranks = <<>>
    /\ lastRanking = Null
    /\ lastLedger = Null
    /\ lastStats = Null
    /\ lastEndDate = Null
    /\ requests = <<>>
    /\ runs = <<>>
    /\ csvImport = NoImport

NextRank ==
    \/ calculateRankings_Observed
    \/ \E i \in 1 .. Len(etfs), quote \in FeedQuotes : handleETFForm(i, quote)
    \/ nextDay(MaxRankDay)

SpecRank == InitRank /\ [][NextRank]_vars

\* ------------------------------------------------------------------------
\* SpecLedger: the operations of the budget ledger called in any order on
\* the day before MaxLedgerDay and on that day
\* ------------------------------------------------------------------------
InitLedger ==
    /\ etfs = <<etfRow(1, <<975, 1000>>)>>
    /\ holdings = <<>>
    /\ config = Null
    /\ today = MaxLedgerDay - 1
    /\ maxRankToConsider = DefaultMaxRank
    /\ pendingBuyAction = Null
    /\ pendingBuyOptions = Null
    /\ selectedETFOption = Null
    /\ lastStrategy = Null
    /\ lastBuyExecution = Null
    /\ budget_config = Null
    /\ ranks = <<>>
    /\ lastRanking = Null
    /\ lastLedger = Null
    /\ lastStats = Null
    /\ lastEndDate = Null
    /\ requests = <<>>
    /\ runs = <<>>
    /\ csvImport = NoImport

NextLedger ==
    \/ \E amount \in BudgetAmounts, d \in LedgerStartDates : setBudget_Observed(amount, <<d>>)
    \/ \E amount \in BudgetAmounts : setBudget_Observed(amount, <<>>)
    \/ \E amount \in TopupAmounts : topupBudget_Observed(amount)
    \/ \E amount \in TopupAmounts : previewTopup_Observed(amount)
    \/ \E amount \in LedgerInvestments : recordInvestment_Observed(amount)
    \/ \E profit \in LedgerProfits : addProfitToReinvestment_Observed(profit, 1)
    \/ \E profit \in AllocationProfits, holdingPeriod \in AllocationPeriods :
           calculateProfitAllocation_Observed(profit, holdingPeriod)
    \/ \E deleteError \in BOOLEAN : resetBudget_Observed(deleteError)
    \/ loadConfig_Observed
    \/ nextDay(MaxLedgerDay)

SpecLedger == InitLedger /\ [][NextLedger]_vars

\* ------------------------------------------------------------------------
\* SpecTrade: one instrument traded through the dialogs, the manual buy form
\* and the Sell buttons, with any integer typed into the quantity fields,
\* while the budget form, the top-up form and the reset are used as well
\* ------------------------------------------------------------------------
InitTrade ==
    /\ etfs = <<etfRow(1, <<975, 1000>>)>>
    /\ holdings = <<>>
    /\ config = Null
    /\ today = 1
    /\ maxRankToConsider = DefaultMaxRank
    /\ pendingBuyAction = Null
    /\ pendingBuyOptions = Null
    /\ selectedETFOption = Null
    /\ lastStrategy = Null
    /\ lastBuyExecution = Null
    /\ budget_config = Null
    /\ ranks = <<>>
    /\ lastRanking = Null
    /\ lastLedger = Null
    /\ lastStats = Null
    /\ lastEndDate = Null
    /\ requests = <<>>
    /\ runs = <<>>
    /\ csvImport = NoImport

NextTrade ==
    \/ \E i \in 1 .. Len(etfs), quote \in FeedQuotes : handleETFForm(i, quote)
    \/ handleBudgetForm(MinBudget, <<1>>)
    \/ handleTopupForm(MinTopup)
    \/ resetBudget
    \/ calculateDailyStrategy
    \/ proceedWithSelectedETF
    \/ closeBuyConfirmation
    \/ \E q \in TradeQuantityInputs : updateTotalAmount(q)
    \/ confirmBuyAction
    \/ \E e \in 1 .. Len(etfs), p \in ManualPrices, q \in TradeManualQuantities :
           handleBuyForm(etfs[e].id, p, q)
    \/ \E i \in 1 .. MaxLots : sellHolding(i)

SpecTrade == InitTrade /\ [][NextTrade]_vars

\* ------------------------------------------------------------------------
\* SpecStats: the portfolio statistics of any holdings table of at most
\* StatsLots lots of one or two units bought at 1000 on day 1, each still
\* active or sold at a loss or at a profit, 365 or 366 days later; the price
\* keeps changing and the active lots are sold on the day after
\* ------------------------------------------------------------------------
\* every such table; the rows are in insertion order
statsTablesOf(maxLots) ==
    LET lots == {[active |-> TRUE, sell_price |-> 0, date_sold |-> 0]}
                    \cup {[active |-> FALSE, sell_price |-> p, date_sold |-> d] :
                              p \in StatsPrices, d \in StatsSaleDays}
        shapes == UNION {[1 .. k -> lots \X StatsQuantities] : k \in 0 .. maxLots}
    IN {[i \in 1 .. Len(f) |->
            [id |-> i, etf_id |-> 1, buy_price |-> 1000, quantity |-> f[i][2],
             date_purchased |-> 1, active |-> f[i][1].active,
             sell_price |-> f[i][1].sell_price,
             date_sold |-> f[i][1].date_sold]] : f \in shapes}

InitStats ==
    /\ etfs = <<etfRow(1, <<1040, 1000>>)>>
    /\ holdings \in statsTablesOf(StatsLots)
    /\ config = Null
    /\ today = 368
    /\ maxRankToConsider = DefaultMaxRank
    /\ pendingBuyAction = Null
    /\ pendingBuyOptions = Null
    /\ selectedETFOption = Null
    /\ lastStrategy = Null
    /\ lastBuyExecution = Null
    /\ budget_config = Null
    /\ ranks = <<>>
    /\ lastRanking = Null
    /\ lastLedger = Null
    /\ lastStats = Null
    /\ lastEndDate = Null
    /\ requests = <<>>
    /\ runs = <<>>
    /\ csvImport = NoImport

NextStats ==
    \/ getPortfolioStats_Observed
    \/ \E i \in 1 .. Len(etfs), p \in StatsPrices : handleETFForm(i, <<p, 1000>>)
    \/ \E i \in 1 .. StatsLots : sellHolding(i)

SpecStats == InitStats /\ [][NextStats]_vars

\* ------------------------------------------------------------------------
\* SpecDays: a budget of 50000 set on any day from day 1 (a Monday) to
\* PlanLastDay, starting on a Monday, on a Saturday or after PlanLastDay, and
\* its days counted as the days pass
\* ------------------------------------------------------------------------
InitDays ==
    /\ etfs = <<etfRow(1, <<975, 1000>>)>>
    /\ holdings = <<>>
    /\ config = Null
    /\ today = 1
    /\ maxRankToConsider = DefaultMaxRank
    /\ pendingBuyAction = Null
    /\ pendingBuyOptions = Null
    /\ selectedETFOption = Null
    /\ lastStrategy = Null
    /\ lastBuyExecution = Null
    /\ budget_config = Null
    /\ ranks = <<>>
    /\ lastRanking = Null
    /\ lastLedger = Null
    /\ lastStats = Null
    /\ lastEndDate = Null
    /\ requests = <<>>
    /\ runs = <<>>
    /\ csvImport = NoImport

NextDays ==
    \/ \E amount \in DaysBudgets, d \in DaysStartDates \cup {PlanLastDay + 1} :
           setBudget_Observed(amount, <<d>>)
    \/ calculateDaysCompleted_Observed
    \/ getRemainingDays_Observed
    \/ nextDay(PlanLastDay)

SpecDays == InitDays /\ [][NextDays]_vars

\* ------------------------------------------------------------------------
\* SpecCalendar: calculateEndDate called with today as the start date on each
\* day of two weeks (day 1 is a Monday) and with 0 .. MaxTradingDays trading
\* days
\* ------------------------------------------------------------------------
InitCalendar == InitDays

NextCalendar ==
    \/ \E tradingDays \in 0 .. MaxTradingDays : calculateEndDate_Observed(today, tradingDays)
    \/ nextDay(CalendarLastDay)

SpecCalendar == InitCalendar /\ [][NextCalendar]_vars

\* ------------------------------------------------------------------------
\* SpecPersist: one instrument traded through the strategy and its dialogs
\* while the store answers request by request, with or without an error,
\* and the page is loaded again
\* ------------------------------------------------------------------------
InitPersist == Init

NextPersist ==
    \/ \E saveError \in BOOLEAN : setBudget_Stored(MinBudget, <<1>>, saveError)
    \/ calculateDailyStrategy_Stored(FALSE)
    \/ proceedWithSelectedETF
    \/ \E insertError \in BOOLEAN : confirmBuyAction_Stored(insertError)
    \/ \E i \in 1 .. MaxRequests, error \in BOOLEAN : storeAnswers(i, error)
    \/ \E readError \in BOOLEAN : reloadPage(readError)

SpecPersist == InitPersist /\ [][NextPersist]_vars

\* ------------------------------------------------------------------------
\* SpecAccount: a budget set once, before anything is bought, then buys by
\* the confirmation dialog and by the manual form while the store answers
\* request by request and the page is loaded again
\* ------------------------------------------------------------------------
InitAccount == Init

NextAccount ==
    \/ holdings = <<>> /\ setBudget_Stored(MinBudget, <<1>>, FALSE)
    \/ calculateDailyStrategy_Stored(FALSE)
    \/ proceedWithSelectedETF
    \/ confirmBuyAction_Stored(FALSE)
    \/ \E insertError \in BOOLEAN :
           handleBuyForm_Stored(etfs[1].id, etfs[1].cmp, defaultQuantity, insertError)
    \/ \E i \in 1 .. MaxRequests, error \in BOOLEAN : storeAnswers(i, error)
    \/ reloadPage(FALSE)

SpecAccount == InitAccount /\ [][NextAccount]_vars

\* ------------------------------------------------------------------------
\* SpecSession: users sign in one after another on the same page, each with
\* the row the store has for them, or none; the read of loadConfig fails or
\* not; budgets are set in between and days pass
\* ------------------------------------------------------------------------
InitSession == Init

NextSession ==
    \/ \E row \in {budget_config} \cup OtherUserRows, readError \in BOOLEAN :
           initializeWithAuth(row, readError)
    \/ setBudget_Stored(MinBudget, <<1>>, FALSE)
    \/ \E i \in 1 .. MaxRequests, error \in BOOLEAN : storeAnswers(i, error)
    \/ nextDay(MaxDay)

SpecSession == InitSession /\ [][NextSession]_vars

\* ------------------------------------------------------------------------
\* SpecOverlap: a budget, manual buys and price changes, and runs of
\* calculateDailyStrategy that begin while others wait for the store
\* ------------------------------------------------------------------------
InitOverlap == Init

NextOverlap ==
    \/ \E i \in 1 .. Len(etfs), quote \in FeedQuotes : handleETFForm(i, quote)
    \/ handleBudgetForm(MinBudget, <<1>>)
    \/ handleBuyForm(etfs[1].id, etfs[1].cmp, defaultQuantity)
    \/ calculateDailyStrategy_Begins
    \/ \E k \in 1 .. MaxRuns, updateError \in BOOLEAN :
           calculateDailyStrategy_Ends(k, updateError)

SpecOverlap == InitOverlap /\ [][NextOverlap]_vars

\* ------------------------------------------------------------------------
\* SpecImport: CSV files imported one after another, each possibly
\* cancelled at any moment while the overlay is shown
\* ------------------------------------------------------------------------
InitImport == Init

NextImport ==
    \/ \E file \in ImportFiles : processCSVFile(file)
    \/ \E readError \in BOOLEAN : fileRead(readError)
    \/ parseCSV
    \/ applyFilters
    \/ insertBegins
    \/ \E error \in BOOLEAN : upsertAnswered(error)
    \/ pauseEnds
    \/ importCompletes
    \/ cancel

SpecImport == InitImport /\ [][NextImport]_vars

\* ------------------------------------------------------------------------
\* SpecSave: a budget set and topped up over a few days while the
\* store answers its saves with or without an error
\* ------------------------------------------------------------------------
InitSave == Init

NextSave ==
    \/ \E saveError \in BOOLEAN : setBudget_Stored(MinBudget, <<1>>, saveError)
    \/ \E saveError \in BOOLEAN : topupBudget_Stored(MinTopup, saveError)
    \/ \E i \in 1 .. MaxRequests, error \in BOOLEAN : storeAnswers(i, error)
    \/ nextDay(MaxDay)

SpecSave == InitSave /\ [][NextSave]_vars

\* ------------------------------------------------------------------------
\* Properties
\* ------------------------------------------------------------------------
\* C1: whatever sequence of budget settings, top-ups, confirmed and manual
\* buys and sells has run, the amount recorded as used never exceeds the
\* total budget plus the reinvested profit.
C1_UsedWithinBudget ==
    config # Null => config.usedAmount <= config.totalBudget + config.reinvestedProfit

\* a budget that was topped up to 6000, with profit reinvested from a sold
\* lot, and more than the original 5000 used
C1_Witness ==
    /\ config # Null
    /\ config.totalBudget = 6000
    /\ config.reinvestedProfit > 0
    /\ config.usedAmount > 5000
    /\ \E i \in 1 .. Len(holdings) : ~holdings[i].active

\* C2: a step that changes the number of rows of the holdings table, or
\* usedAmount, is not a run of calculateDailyStrategy, whichever order
\* getCurrentHoldings returned the rows in; and a step that adds a row is
\* confirmBuyAction executing a pending buy action, or the manual buy form.
C2_StrategyOnlyProposes ==
    [][ /\ (\/ Len(holdings') # Len(holdings)
            \/ ~(\/ config' = config
                 \/ /\ config # Null
                    /\ config' # Null
                    /\ config'.usedAmount = config.usedAmount))
              => ~calculateDailyStrategy
        /\ Len(holdings') > Len(holdings) =>
              \/ pendingBuyAction # Null /\ confirmBuyAction
              \/ \E e \in 1 .. Len(etfs), p \in ManualPrices, q \in ManualQuantities :
                     handleBuyForm(etfs[e].id, p, q) ]_vars

\* the strategy has decided to average the one lot held: the buy is pending,
\* the table still has that one row and the budget records its cost only
C2_Witness ==
    /\ pendingBuyAction # Null
    /\ pendingBuyAction.type = "AVERAGE"
    /\ Len(holdings) = 1
    /\ config # Null
    /\ config.usedAmount = holdings[1].buy_price * holdings[1].quantity

\* C3: when executeBuyAction is asked for a quantity whose cost exceeds the
\* available amount, it buys floor(available / price) units if that is at
\* least 1 (one row added with that quantity, usedAmount raised by its
\* cost); otherwise it throws, the holdings table and the budget staying as
\* they were.
C3_ClipOrFail ==
    lastBuyExecution # Null =>
        LET x == lastBuyExecution
            before == x.configBefore
            price == x.buyAction.etf.cmp
            available == IF before = Null THEN 0
                         ELSE before.totalBudget - before.usedAmount
                              + before.reinvestedProfit
            fits == available \div price
        IN price * x.buyAction.quantity > available =>
              IF fits >= 1
              THEN /\ ~x.threw
                   /\ x.quantity = fits
                   /\ Len(holdings) = Len(x.rowsBefore) + 1
                   /\ SubSeq(holdings, 1, Len(x.rowsBefore)) = x.rowsBefore
                   /\ holdings[Len(holdings)].etf_id = x.buyAction.etf.id
                   /\ holdings[Len(holdings)].buy_price = price
                   /\ holdings[Len(holdings)].quantity = fits
                   /\ holdings[Len(holdings)].active
                   /\ config.usedAmount = before.usedAmount + price * fits
              ELSE /\ x.threw
                   /\ holdings = x.rowsBefore
                   /\ config = before

\* two units at 975 were asked for with 1000 available, and one was bought
C3_Witness ==
    /\ lastBuyExecution # Null
    /\ ~lastBuyExecution.threw
    /\ lastBuyExecution.buyAction.quantity = 2
    /\ lastBuyExecution.buyAction.etf.cmp = 975
    /\ lastBuyExecution.configBefore.usedAmount = 4000
    /\ lastBuyExecution.quantity = 1

\* profit of a supplied holding above 6% of its buy price
qualifiesForSale(h) == (h.etfs.cmp - h.buy_price) * 100 > 6 * h.buy_price

\* C4: the sell decision is null when no supplied holding has a profit
\* strictly above 6%; otherwise it is one of the supplied holdings above 6%,
\* and none of those was bought on a later day.
C4_SellNewestProfitable ==
    lastStrategy # Null =>
        LET hs == lastStrategy.holdings
            sell == lastStrategy.actions.sell
        IN IF \A i \in 1 .. Len(hs) : ~qualifiesForSale(hs[i])
           THEN sell = Null
           ELSE /\ sell # Null
                /\ sell.type = "SELL"
                /\ \E i \in 1 .. Len(hs) : hs[i] = sell.holding
                /\ qualifiesForSale(sell.holding)
                /\ \A j \in 1 .. Len(hs) :
                       qualifiesForSale(hs[j]) =>
                           hs[j].date_purchased <= sell.holding.date_purchased

\* three lots above 6% bought on days 1, 2 and 3, supplied with the newest in
\* the middle, and the lot of day 3 chosen
C4_Witness ==
    /\ lastStrategy # Null
    /\ Len(lastStrategy.holdings) = 3
    /\ \A i \in 1 .. 3 : qualifiesForSale(lastStrategy.holdings[i])
    /\ lastStrategy.holdings[1].date_purchased = 1
    /\ lastStrategy.holdings[2].date_purchased = 3
    /\ lastStrategy.holdings[3].date_purchased = 2
    /\ lastStrategy.actions.sell # Null
    /\ lastStrategy.actions.sell.holding.date_purchased = 3

\* C5: after a cycle the holdings table is the table before it, except that
\* the row of the holding the sell decision chose is inactive and carries
\* the instrument's price and the day of the cycle; with no sell decision
\* the table is as before.
C5_CycleSellsTheChosenOnly ==
    lastStrategy # Null =>
        LET before == lastStrategy.rows
            sell == lastStrategy.actions.sell
        IN /\ Len(holdings) = Len(before)
           /\ \A i \in 1 .. Len(before) :
                  IF sell # Null /\ before[i].id = sell.holding.id
                  THEN /\ ~holdings[i].active
                       /\ holdings[i].sell_price = sell.holding.etfs.cmp
                       /\ holdings[i].date_sold = lastStrategy.today
                       /\ [holdings[i] EXCEPT !.active = TRUE, !.sell_price = 0,
                                              !.date_sold = 0] = before[i]
                  ELSE holdings[i] = before[i]
           /\ lastStrategy.sellExecuted = (sell # Null)

\* two active lots of one instrument were both above 6%; the cycle sold one
\* and the other is still active
C5_Witness ==
    /\ lastStrategy # Null
    /\ lastStrategy.actions.sell # Null
    /\ \E i, j \in 1 .. Len(holdings) :
          /\ i # j
          /\ lastStrategy.rows[i].active /\ lastStrategy.rows[j].active
          /\ lastStrategy.rows[i].etf_id = lastStrategy.rows[j].etf_id
          /\ lastStrategy.rows[i].etf_id = lastStrategy.actions.sell.holding.etf_id
          /\ ~holdings[i].active
          /\ holdings[j].active

\* the rank positions, among the first maxRankToConsider, of the instruments
\* of which no holding was supplied to the observed cycle
unheldTopRanks ==
    LET ranked == lastStrategy.rankedETFs
        hs == lastStrategy.holdings
        K == IF lastStrategy.maxRankToConsider < Len(ranked)
             THEN lastStrategy.maxRankToConsider ELSE Len(ranked)
    IN {i \in 1 .. K : \A k \in 1 .. Len(hs) : hs[k].etf_id # ranked[i].id}

\* C6: the buy decision is null or of one kind; it is MULTIPLE_OPTIONS
\* whenever an instrument among the first K ranked is not held, and AVERAGE
\* only when every one of them is held.
C6_OptionsBeforeAveraging ==
    lastStrategy # Null =>
        LET buy == lastStrategy.actions.buy IN
        /\ buy # Null => buy.type \in {"MULTIPLE_OPTIONS", "AVERAGE"}
        /\ unheldTopRanks # {} => (buy # Null /\ buy.type = "MULTIPLE_OPTIONS")
        /\ (buy # Null /\ buy.type = "AVERAGE") => unheldTopRanks = {}

\* with K = 2 an instrument of the first two ranks is not held while a
\* supplied holding has lost 2.5% or more: the decision is MULTIPLE_OPTIONS
C6_Witness ==
    /\ lastStrategy # Null
    /\ lastStrategy.maxRankToConsider = 2
    /\ unheldTopRanks # {}
    /\ \E k \in 1 .. Len(lastStrategy.holdings) :
           (lastStrategy.holdings[k].etfs.cmp - lastStrategy.holdings[k].buy_price) * 1000
               <= (0 - 25) * lastStrategy.holdings[k].buy_price
    /\ lastStrategy.actions.buy # Null
    /\ lastStrategy.actions.buy.type = "MULTIPLE_OPTIONS"

\* C7: the options of a MULTIPLE_OPTIONS decision are the unheld instruments
\* of the first K ranks, one option each, in ascending rank, each with its
\* rank position; the default option is the first, of the lowest rank.
C7_OptionsAreTheUnheldTopRanks ==
    (lastStrategy # Null /\ lastStrategy.actions.buy # Null
        /\ lastStrategy.actions.buy.type = "MULTIPLE_OPTIONS") =>
        LET buy == lastStrategy.actions.buy
            ranked == lastStrategy.rankedETFs
        IN /\ Len(buy.options) = Cardinality(unheldTopRanks)
           /\ \A k \in 1 .. Len(buy.options) :
                  /\ buy.options[k].rank \in unheldTopRanks
                  /\ buy.options[k].etf = ranked[buy.options[k].rank]
           /\ \A k, l \in 1 .. Len(buy.options) :
                  k < l => buy.options[k].rank < buy.options[l].rank
           /\ buy.defaultOption = buy.options[1]
           /\ \A i \in unheldTopRanks : buy.defaultOption.rank <= i

\* with K = 2 and three instruments the first rank is held, the third is
\* not, and the only option is the instrument of rank 2
C7_Witness ==
    /\ lastStrategy # Null
    /\ lastStrategy.maxRankToConsider = 2
    /\ Len(lastStrategy.rankedETFs) = 3
    /\ \A k \in 1 .. Len(lastStrategy.holdings) :
           lastStrategy.holdings[k].etf_id # lastStrategy.rankedETFs[3].id
    /\ unheldTopRanks = {2}
    /\ lastStrategy.actions.buy # Null
    /\ lastStrategy.actions.buy.type = "MULTIPLE_OPTIONS"
    /\ Len(lastStrategy.actions.buy.options) = 1
    /\ lastStrategy.actions.buy.defaultOption.rank = 2

\* the supplied holdings whose instrument, at the price the ranking read,
\* stands at a loss of 2.5% or more against the holding's buy price
averagingCandidates ==
    LET hs == lastStrategy.holdings
        market == lastStrategy.etfs
    IN {k \in 1 .. Len(hs) :
           \E m \in 1 .. Len(market) :
               /\ market[m].id = hs[k].etf_id
               /\ (market[m].cmp - hs[k].buy_price) * 1000 <= (0 - 25) * hs[k].buy_price}

expectedQuantity(cfg, price) ==
    IF cfg = Null THEN 1
    ELSE IF cfg.dailyAmount = 0 THEN 1
    ELSE IF cfg.dailyAmount \div price >= 1 THEN cfg.dailyAmount \div price ELSE 1

\* C9: every option of a MULTIPLE_OPTIONS decision, its default option and
\* an AVERAGE decision carry the quantity max(1, floor(dailyAmount / price))
\* when the budget has a daily amount, and 1 when there is no budget.
C9_RecommendedQuantity ==
    (lastStrategy # Null /\ lastStrategy.actions.buy # Null) =>
        LET buy == lastStrategy.actions.buy
            cfg == lastStrategy.config
        IN IF buy.type = "MULTIPLE_OPTIONS"
           THEN /\ \A k \in 1 .. Len(buy.options) :
                       buy.options[k].quantity
                           = expectedQuantity(cfg, buy.options[k].etf.cmp)
                /\ buy.defaultOption.quantity
                       = expectedQuantity(cfg, buy.defaultOption.etf.cmp)
           ELSE buy.quantity = expectedQuantity(cfg, buy.etf.cmp)

\* a daily amount of 250: the option at price 100 carries 2 units, the
\* option at price 975 carries 1
C9_Witness ==
    /\ lastStrategy # Null
    /\ lastStrategy.config # Null
    /\ lastStrategy.config.dailyAmount = 250
    /\ lastStrategy.actions.buy # Null
    /\ lastStrategy.actions.buy.type = "MULTIPLE_OPTIONS"
    /\ \E k, l \in 1 .. Len(lastStrategy.actions.buy.options) :
          /\ lastStrategy.actions.buy.options[k].etf.cmp = 100
          /\ lastStrategy.actions.buy.options[k].quantity = 2
          /\ lastStrategy.actions.buy.options[l].etf.cmp = 975
          /\ lastStrategy.actions.buy.options[l].quantity = 1

\* a.cmp / a.dma_20 < b.cmp / b.dma_20, which orders two instruments as their
\* deviations (cmp - dma_20) / dma_20 * 100 do
deviatesLess(a, b) == a.cmp * b.dma_20 < b.cmp * a.dma_20

\* the position of an instrument in the etfs table the ranking read
inputPosition(id) ==
    CHOOSE m \in 1 .. Len(lastStrategy.etfs) : lastStrategy.etfs[m].id = id

\* C10: the ranking gives the N instruments read the ranks 1 .. N, each
\* instrument one rank; no instrument has a smaller deviation than one
\* ranked before it; instruments of equal deviation are ranked in the order
\* they were read.
C10_RanksAreAStableAscendingPermutation ==
    lastStrategy # Null =>
        LET input == lastStrategy.etfs
            ranking == lastStrategy.currentRankings
            quoteOf(r) == input[inputPosition(r.etf_id)]
        IN /\ Len(ranking) = Len(input)
           /\ \A i \in 1 .. Len(ranking) : ranking[i].rank = i
           /\ {ranking[i].etf_id : i \in 1 .. Len(ranking)}
                  = {input[m].id : m \in 1 .. Len(input)}
           /\ \A i, j \in 1 .. Len(ranking) :
                  i < j =>
                      /\ ~deviatesLess(quoteOf(ranking[j]), quoteOf(ranking[i]))
                      /\ ~deviatesLess(quoteOf(ranking[i]), quoteOf(ranking[j]))
                             => inputPosition(ranking[i].etf_id)
                                    < inputPosition(ranking[j].etf_id)

\* the first instrument read deviates most and the other two equally: they
\* take ranks 1 and 2 in the order read, and the first takes rank 3
C10_Witness ==
    /\ lastStrategy # Null
    /\ Len(lastStrategy.etfs) = 3
    /\ deviatesLess(lastStrategy.etfs[2], lastStrategy.etfs[1])
    /\ ~deviatesLess(lastStrategy.etfs[2], lastStrategy.etfs[3])
    /\ ~deviatesLess(lastStrategy.etfs[3], lastStrategy.etfs[2])
    /\ lastStrategy.currentRankings[1].etf_id = lastStrategy.etfs[2].id
    /\ lastStrategy.currentRankings[2].etf_id = lastStrategy.etfs[3].id
    /\ lastStrategy.currentRankings[3].etf_id = lastStrategy.etfs[1].id

\* ------------------------------------------------------------------------
\* Deviation and the ranks table
\* ------------------------------------------------------------------------
\* C11: every instrument ranked carries the deviation (cmp - dma) / dma * 100
\* of its own quote, and the deviation 0 when its dma is 0; for a positive
\* dma the deviation is negative exactly when cmp is below dma.  The row
\* written to the ranks table carries the same deviation.
C11_DeviationOfEveryInstrument ==
    lastRanking # Null =>
        \A i \in 1 .. Len(lastRanking.rankedETFs) :
            LET etf == lastRanking.rankedETFs[i]
                deviation == etf.deviation
            IN /\ deviation[2] > 0
               /\ etf.dma_20 = 0 => deviation[1] = 0
               /\ etf.dma_20 # 0 =>
                      deviation[1] * etf.dma_20 = (etf.cmp - etf.dma_20) * 100 * deviation[2]
               /\ etf.dma_20 > 0 => (deviation[1] < 0 <=> etf.cmp < etf.dma_20)
               /\ \E k \in 1 .. Len(ranks) :
                      /\ ranks[k].date = lastRanking.today
                      /\ ranks[k].etf_id = etf.id
                      /\ ranks[k].deviation = deviation

\* a ranking of an instrument whose dma is 0 while its cmp is not, and of an
\* instrument priced below its positive dma
C11_Witness ==
    /\ lastRanking # Null
    /\ \E i, j \in 1 .. Len(lastRanking.rankedETFs) :
           /\ lastRanking.rankedETFs[i].dma_20 = 0
           /\ lastRanking.rankedETFs[i].cmp # 0
           /\ lastRanking.rankedETFs[i].deviation[1] = 0
           /\ lastRanking.rankedETFs[j].dma_20 > 0
           /\ lastRanking.rankedETFs[j].cmp < lastRanking.rankedETFs[j].dma_20
           /\ lastRanking.rankedETFs[j].deviation[1] < 0

\* the rows the ranks table holds for a date
ranksOfDate(date) == SelectSeq(ranks, LAMBDA r : r.date = date)

C13_AvailableIsTotalLessUsedPlusReinvested ==
    config # Null =>
        /\ getAvailableAmount(config)
               = config.totalBudget - config.usedAmount + config.reinvestedProfit
        /\ checkSufficientBudget(config, 0).available
               = config.totalBudget - config.usedAmount + config.reinvestedProfit

\* a budget that was topped up, invested from and credited with profit
C13_Witness ==
    /\ config # Null
    /\ lastLedger # Null
    /\ config.totalBudget > MinBudget
    /\ config.usedAmount > 0
    /\ config.reinvestedProfit > 0
    /\ getAvailableAmount(config) # config.totalBudget

\* C14: setBudget throws exactly when the amount is below 5000 or the start
\* date is missing, and then leaves this.config as it was and saves nothing;
\* otherwise it leaves a budget of that amount and start date with
\* usedAmount 0, reinvestedProfit 0 and dailyAmount = amount / 50.
C14_SetBudgetValidatesAndInitializes ==
    (lastLedger # Null /\ lastLedger.op = "setBudget") =>
        LET totalAmount == lastLedger.argument[1]
            startDateField == lastLedger.argument[2]
        IN /\ lastLedger.threw <=> (totalAmount < MinBudget \/ startDateField = <<>>)
           /\ lastLedger.threw =>
                  /\ config = lastLedger.configBefore
                  /\ lastLedger.saves = 0
           /\ ~lastLedger.threw =>
                  /\ config # Null
                  /\ config.totalBudget = totalAmount
                  /\ config.startDate = startDateField[1]
                  /\ config.usedAmount = 0
                  /\ config.reinvestedProfit = 0
                  /\ config.dailyAmount * PlanDays = totalAmount

\* setBudget refused for its missing start date on a ledger already in use,
\* which stays as it was
C14_Witness ==
    /\ lastLedger # Null
    /\ lastLedger.op = "setBudget"
    /\ lastLedger.threw
    /\ lastLedger.argument[1] >= MinBudget
    /\ lastLedger.configBefore # Null
    /\ lastLedger.configBefore.usedAmount > 0
    /\ config = lastLedger.configBefore

\* C15: the daily amount of a budget is a fiftieth of its total in every
\* state: right after setBudget, after every top-up on whatever day it is
\* made, and as the days pass; recordInvestment and addProfitToReinvestment
\* leave it as it was.
C15_DailyAmountIsAFiftiethOfTheTotal ==
    /\ config # Null => getDailyAmount(config) * PlanDays = config.totalBudget
    /\ (/\ lastLedger # Null
        /\ lastLedger.op \in {"recordInvestment", "addProfitToReinvestment"}
        /\ lastLedger.configBefore # Null)
           => config.dailyAmount = lastLedger.configBefore.dailyAmount

\* a top-up made days after the start date, on a ledger in use: the daily
\* amount went up to a fiftieth of the new total
C15_Witness ==
    /\ lastLedger # Null
    /\ lastLedger.op = "topupBudget"
    /\ ~lastLedger.threw
    /\ config.daysCompleted > 1
    /\ config.daysCompleted < PlanDays - 1
    /\ config.usedAmount > 0
    /\ config.dailyAmount > lastLedger.configBefore.dailyAmount
    /\ config.dailyAmount * PlanDays = config.totalBudget

\* the trading days from a start date to a day, at most 50
tradingDaysCompleted(startDate, now) ==
    Min(Cardinality({d \in startDate .. now : d % 7 # 0 /\ d % 7 # 6}), 50)

\* the amounts and the start date of a budget
ledgerOf(cfg) ==
    <<cfg.totalBudget, cfg.dailyAmount, cfg.startDate, cfg.usedAmount, cfg.reinvestedProfit>>

C17_TopUpAddsExactlyTheAmount ==
    (lastLedger # Null /\ lastLedger.op = "topupBudget" /\ ~lastLedger.threw) =>
        LET before == lastLedger.configBefore IN
        /\ config.totalBudget = before.totalBudget + lastLedger.argument
        /\ config.usedAmount = before.usedAmount
        /\ config.reinvestedProfit = before.reinvestedProfit
        /\ config.startDate = before.startDate
        /\ getAvailableAmount(config) = getAvailableAmount(before) + lastLedger.argument
        /\ lastLedger.value.newBudget = config.totalBudget
        /\ lastLedger.value.availableAmount = getAvailableAmount(config)

\* a top-up of a ledger with a used amount and a reinvested profit
C17_Witness ==
    /\ lastLedger # Null
    /\ lastLedger.op = "topupBudget"
    /\ ~lastLedger.threw
    /\ lastLedger.configBefore.usedAmount > 0
    /\ lastLedger.configBefore.reinvestedProfit > 0
    /\ config.totalBudget > lastLedger.configBefore.totalBudget

\* C18: a call of previewTopup, whether it returns a preview or throws,
\* leaves every field of this.config as it was and issues no save of the
\* budget record.
C18_PreviewMutatesNothing ==
    (lastLedger # Null /\ lastLedger.op = "previewTopup") =>
        /\ config = lastLedger.configBefore
        /\ lastLedger.saves = 0

\* a preview that wrote a field of this.config and saved the record
C18_Witness ==
    /\ lastLedger # Null
    /\ lastLedger.op = "previewTopup"
    /\ lastLedger.configBefore # Null
    /\ config.daysCompleted # lastLedger.configBefore.daysCompleted
    /\ lastLedger.saves > 0

\* C19: in every state and for every amount previewTopup throws exactly
\* when topupBudget would, and the newBudget, newDailyAmount and
\* newAvailableAmount it projects are the totalBudget, the dailyAmount and
\* the available amount held right after that top-up; so too for a top-up
\* made right after its preview.
C19_PreviewAgreesWithTopUp ==
    /\ \A amount \in TopupAmounts :
           LET preview == previewTopup(config, amount, today)
               topup == topupBudget(config, amount, today)
           IN /\ preview.threw = topup.threw
              /\ ~preview.threw =>
                     /\ preview.value.newBudget = topup.config.totalBudget
                     /\ preview.value.newDailyAmount = topup.config.dailyAmount
                     /\ preview.value.newAvailableAmount = getAvailableAmount(topup.config)
    /\ (lastLedger # Null /\ lastLedger.op = "topupBudget" /\ lastLedger.previewed # Null) =>
           /\ lastLedger.previewed.threw = lastLedger.threw
           /\ ~lastLedger.threw =>
                  /\ lastLedger.previewed.value.newBudget = config.totalBudget
                  /\ lastLedger.previewed.value.newDailyAmount = config.dailyAmount
                  /\ lastLedger.previewed.value.newAvailableAmount
                         = config.totalBudget - config.usedAmount + config.reinvestedProfit

\* a top-up made right after its preview, on a ledger with a used amount and
\* a reinvested profit
C19_Witness ==
    /\ lastLedger # Null
    /\ lastLedger.op = "topupBudget"
    /\ lastLedger.previewed # Null
    /\ ~lastLedger.threw
    /\ config.usedAmount > 0
    /\ config.reinvestedProfit > 0
    /\ lastLedger.previewed.value.newBudget = config.totalBudget

\* C20: recordInvestment on a budget throws exactly when the amount exceeds
\* the available amount (when checkSufficientBudget reports it insufficient)
\* and then leaves usedAmount, with the whole config, as it was; otherwise it
\* raises usedAmount by exactly the amount and leaves the other amounts.
C20_RecordInvestmentChecksTheAvailableAmount ==
    (lastLedger # Null /\ lastLedger.op = "recordInvestment"
        /\ lastLedger.configBefore # Null) =>
        LET before == lastLedger.configBefore
            amount == lastLedger.argument
            available == before.totalBudget - before.usedAmount + before.reinvestedProfit
        IN /\ lastLedger.threw <=> amount > available
           /\ lastLedger.threw <=> ~checkSufficientBudget(before, amount).sufficient
           /\ lastLedger.threw => config = before
           /\ ~lastLedger.threw =>
                  /\ config.usedAmount = before.usedAmount + amount
                  /\ config.totalBudget = before.totalBudget
                  /\ config.reinvestedProfit = before.reinvestedProfit

\* an investment refused on a ledger in use whose total would have covered it
C20_Witness ==
    /\ lastLedger # Null
    /\ lastLedger.op = "recordInvestment"
    /\ lastLedger.threw
    /\ lastLedger.configBefore # Null
    /\ lastLedger.configBefore.usedAmount > 0
    /\ lastLedger.argument <= lastLedger.configBefore.totalBudget
    /\ config.usedAmount = lastLedger.configBefore.usedAmount

\* the rows of the holdings table that a step added
boughtRows == SubSeq(holdings', Len(holdings) + 1, Len(holdings'))

\* C21: in a step from one budget to a budget, usedAmount does not go down,
\* and when it changes the step is a buy: the holdings table has gained one
\* row and usedAmount has gone up by the cost of that row.
C21_UsedAmountGrowsOnlyByBuys ==
    [][ (config # Null /\ config' # Null) =>
            /\ config'.usedAmount >= config.usedAmount
            /\ config'.usedAmount # config.usedAmount =>
                   /\ Len(boughtRows) = 1
                   /\ config'.usedAmount - config.usedAmount
                          = boughtRows[1].buy_price * boughtRows[1].quantity ]_vars

\* a budget whose used amount has gone below zero: the quantity field of the
\* dialog read -1 when the buy was confirmed
C21_Witness ==
    /\ config # Null
    /\ config.usedAmount < 0
    /\ Len(holdings) = 1
    /\ holdings[1].quantity = 0 - 1
    /\ config.usedAmount = holdings[1].buy_price * holdings[1].quantity

\* the rows of the holdings table that a step turned from active to inactive
soldRows == {i \in 1 .. Len(holdings) : holdings[i].active /\ ~holdings'[i].active}

\* the profit of the sale of row i in that step
profitOfSale(i) ==
    holdings'[i].sell_price * holdings[i].quantity
        - holdings[i].buy_price * holdings[i].quantity

\* C22: in a step from one budget to a budget, reinvestedProfit does not go
\* down; when it changes, the step has sold a holding at a profit above 0 and
\* reinvestedProfit has grown by 80% of that profit; and a step that sells a
\* holding at a profit of 0 or less leaves the budget as it was.
C22_ReinvestedGrowsOnlyByProfitableSells ==
    [][ (config # Null /\ config' # Null) =>
            /\ config'.reinvestedProfit >= config.reinvestedProfit
            /\ config'.reinvestedProfit # config.reinvestedProfit =>
                   \E i \in soldRows :
                       /\ profitOfSale(i) > 0
                       /\ (config'.reinvestedProfit - config.reinvestedProfit) * 100
                              = 80 * profitOfSale(i)
            /\ (\E i \in soldRows : profitOfSale(i) <= 0) => config' = config ]_vars

purchaseOf(h) == <<h.id, h.etf_id, h.buy_price, h.quantity, h.date_purchased>>

C25_HoldingsHaveAtLeastOneUnit ==
    \A i \in 1 .. Len(holdings) :
        /\ holdings[i].quantity \in Int
        /\ holdings[i].quantity >= 1

\* a manual buy of one unit followed by a dialog buy whose quantity field was
\* edited to -1: the second row is persisted with quantity -1
C25_Witness ==
    /\ Len(holdings) = 2
    /\ holdings[1].quantity = 1
    /\ holdings[2].quantity = 0 - 1
    /\ holdings[2].active
    /\ pendingBuyAction = Null

\* the last call observed was calculateProfitAllocation(profit, holdingPeriod)
allocationOf(profit, holdingPeriod) ==
    /\ lastLedger # Null
    /\ lastLedger.op = "calculateProfitAllocation"
    /\ lastLedger.argument = <<profit, holdingPeriod>>

\* C26: calculateProfitAllocation returns null when profit <= 0; otherwise a
\* holding period of at most 365 days is short-term and taxed at 15%, a
\* longer one long-term and taxed at 12.5%, brokerage is 5%, reinvestment 80%
\* and net = profit - tax - brokerage; profit 1000 held 100 days gives
\* short-term, 150, 50, 800, 800 and held 400 days long-term, 125, 50, 800, 825
C26_ProfitAllocation ==
    /\ \A profit \in AllocationProfits, holdingPeriod \in AllocationPeriods :
           allocationOf(profit, holdingPeriod) =>
               LET a == lastLedger.value IN
               IF profit <= 0 THEN a = Null
               ELSE /\ a # Null
                    /\ a.totalProfit = profit
                    /\ a.taxType = (IF holdingPeriod <= 365 THEN "STCG" ELSE "LTCG")
                    /\ a.taxAmount * 1000
                           = profit * (IF holdingPeriod <= 365 THEN 150 ELSE 125)
                    /\ a.brokerageAmount * 100 = profit * 5
                    /\ a.reinvestmentAmount * 100 = profit * 80
                    /\ a.netAmount = profit - a.taxAmount - a.brokerageAmount
    /\ allocationOf(1000, 100) =>
           /\ lastLedger.value.taxType = "STCG"
           /\ lastLedger.value.taxAmount = 150
           /\ lastLedger.value.brokerageAmount = 50
           /\ lastLedger.value.reinvestmentAmount = 800
           /\ lastLedger.value.netAmount = 800
    /\ allocationOf(1000, 400) =>
           /\ lastLedger.value.taxType = "LTCG"
           /\ lastLedger.value.taxAmount = 125
           /\ lastLedger.value.brokerageAmount = 50
           /\ lastLedger.value.reinvestmentAmount = 800
           /\ lastLedger.value.netAmount = 825

\* a profit of 40 held exactly 365 days was allocated: short-term, tax 6
C26_Witness ==
    /\ allocationOf(40, 365)
    /\ lastLedger.value.taxType = "STCG"
    /\ lastLedger.value.taxAmount = 6
    /\ lastLedger.value.netAmount = 32

\* C27 as stated: for profit 1000 held 400 days,
\* netAmount + taxAmount + brokerageAmount = 975, not 1000
C27_NetTaxBrokerageIs975 ==
    allocationOf(1000, 400) =>
        /\ lastLedger.value.netAmount + lastLedger.value.taxAmount
               + lastLedger.value.brokerageAmount = 975
        /\ lastLedger.value.netAmount + lastLedger.value.taxAmount
               + lastLedger.value.brokerageAmount # 1000

\* C27 amended: for profit 1000 held 400 days it is the three shares
\* taxAmount + brokerageAmount + reinvestmentAmount that add up to 975, not
\* 1000; netAmount + taxAmount + brokerageAmount is 825 + 125 + 50 = 1000
C27_SharesAre975 ==
    allocationOf(1000, 400) =>
        /\ lastLedger.value.taxAmount + lastLedger.value.brokerageAmount
               + lastLedger.value.reinvestmentAmount = 975
        /\ lastLedger.value.netAmount + lastLedger.value.taxAmount
               + lastLedger.value.brokerageAmount = 1000

\* a profit of 1000 held 400 days was allocated
C27_Witness ==
    /\ allocationOf(1000, 400)
    /\ lastLedger.value # Null
    /\ lastLedger.value.taxType = "LTCG"
    /\ lastLedger.value.netAmount = 825

\* the realised profit and loss of a holdings table: (sell price - buy
\* price) x quantity over its inactive rows
realizedOf(rows) ==
    LET upTo[k \in 0 .. Len(rows)] ==
            IF k = 0 THEN 0
            ELSE upTo[k - 1] + (IF rows[k].active THEN 0
                                ELSE (rows[k].sell_price - rows[k].buy_price)
                                         * rows[k].quantity)
    IN upTo[Len(rows)]

\* a thousand times the tax of the inactive rows of a table that were sold
\* at a profit after a holding period for which `longTerm` is as given
taxOf(rows, longTerm) ==
    LET gain(k) == (rows[k].sell_price - rows[k].buy_price) * rows[k].quantity
        held(k) == rows[k].date_sold - rows[k].date_purchased
        upTo[k \in 0 .. Len(rows)] ==
            IF k = 0 THEN 0
            ELSE upTo[k - 1]
                     + (IF ~rows[k].active /\ gain(k) > 0 /\ (held(k) > 365) = longTerm
                        THEN gain(k) * (IF longTerm THEN 125 ELSE 150)
                        ELSE 0)
    IN upTo[Len(rows)]

\* C28: getPortfolioStats reports netProfit = realizedPL - totalTaxPaid, with
\* no brokerage subtracted; realizedPL is the sum of (sell price - buy price)
\* x quantity over all inactive holdings, losses included; totalTaxPaid =
\* stcgTax + ltcgTax, which are the short-term and long-term tax of the
\* holdings sold at a profit only
C28_PortfolioNetProfit ==
    lastStats # Null =>
        /\ lastStats.stats.netProfit
               = lastStats.stats.realizedPL - lastStats.stats.totalTaxPaid
        /\ lastStats.stats.realizedPL = realizedOf(lastStats.holdings)
        /\ lastStats.stats.totalTaxPaid
               = lastStats.stats.stcgTax + lastStats.stats.ltcgTax
        /\ lastStats.stats.stcgTax * 1000 = taxOf(lastStats.holdings, FALSE)
        /\ lastStats.stats.ltcgTax * 1000 = taxOf(lastStats.holdings, TRUE)

\* the statistics of a table of two sold lots: one unit sold at a loss of 40
\* and one sold at a profit of 40 after 366 days: realised 0, tax 5, net -5
C28_Witness ==
    /\ lastStats # Null
    /\ Len(lastStats.holdings) = 2
    /\ \E i, j \in 1 .. 2 :
           /\ ~lastStats.holdings[i].active /\ ~lastStats.holdings[j].active
           /\ lastStats.holdings[i].quantity = 1 /\ lastStats.holdings[j].quantity = 1
           /\ lastStats.holdings[i].sell_price = 960
           /\ lastStats.holdings[j].sell_price = 1040
           /\ lastStats.holdings[j].date_sold = 367
    /\ lastStats.stats.realizedPL = 0
    /\ lastStats.stats.ltcgTax = 5
    /\ lastStats.stats.netProfit = 0 - 5

\* C29: immediately after setBudget with total 50000 and start date = today,
\* dailyAmount = 1000, daysCompleted() = 0 and available() = 50000
C29_FreshBudgetOf50000 ==
    (/\ lastLedger # Null
     /\ lastLedger.op = "setBudget"
     /\ ~lastLedger.threw
     /\ lastLedger.argument = <<50000, <<lastLedger.today>>>>) =>
        /\ getDailyAmount(config) = 1000
        /\ calculateDaysCompleted(config, today).value = 0
        /\ getAvailableAmount(config) = 50000

\* setBudget(50000, start = today) was called on day 1, a Monday: the daily
\* amount is 1000 and 50000 is available, and one day is completed
C29_Witness ==
    /\ lastLedger # Null
    /\ lastLedger.op = "setBudget"
    /\ lastLedger.argument = <<50000, <<1>>>>
    /\ lastLedger.today = 1
    /\ today = 1
    /\ getDailyAmount(config) = 1000
    /\ getAvailableAmount(config) = 50000
    /\ config.daysCompleted = 1
    /\ calculateDaysCompleted(config, today).value = 1

\* the Monday-to-Friday days from day `first` to day `last`, both included
weekdaysOf(first, last) == {d \in first .. last : d % 7 # 0 /\ d % 7 # 6}

\* C30: daysCompleted() is the number of Monday-to-Friday days from the start
\* date to today, at most 50: 0 when the start date is in the future, never
\* above 50, and never lower after a step that leaves the budget's start date
\* alone (today only advances); remainingDays() = max(0, 50 - daysCompleted())
\* and lies in 0 .. 50
C30_DaysCompletedAndRemaining ==
    /\ []((lastLedger # Null /\ lastLedger.op = "calculateDaysCompleted") =>
             /\ lastLedger.value \in 0 .. 50
             /\ lastLedger.configBefore = Null => lastLedger.value = 0
             /\ lastLedger.configBefore # Null =>
                    /\ lastLedger.value
                           = Min(50, Cardinality(weekdaysOf(lastLedger.configBefore.startDate,
                                                            lastLedger.today)))
                    /\ (lastLedger.configBefore.startDate > lastLedger.today) =>
                           lastLedger.value = 0)
    /\ []((lastLedger # Null /\ lastLedger.op = "getRemainingDays") =>
             /\ lastLedger.value \in 0 .. 50
             /\ lastLedger.value
                    = Max(0, 50 - calculateDaysCompleted(lastLedger.configBefore,
                                                         lastLedger.today).value))
    /\ [][ (config # Null /\ config' # Null /\ config'.startDate = config.startDate) =>
               (/\ today' >= today
                /\ calculateDaysCompleted(config', today').value
                       >= calculateDaysCompleted(config, today).value) ]_vars

\* the days of a budget that started on day 1 were counted on day 75: all 50
\* are completed, although 55 weekdays have passed, and none remains
C30_Witness ==
    /\ lastLedger # Null
    /\ lastLedger.op = "calculateDaysCompleted"
    /\ lastLedger.configBefore # Null
    /\ lastLedger.configBefore.startDate = 1
    /\ lastLedger.today = 75
    /\ Cardinality(weekdaysOf(1, 75)) = 55
    /\ lastLedger.value = 50
    /\ getRemainingDays(config, today).value = 0

\* C31: calculateEndDate(start, n) skips Saturdays and Sundays: for n >= 1
\* the date it returns is a Monday-to-Friday day and exactly n such days lie
\* after start up to and including it; a Friday plus 1 trading day is the
\* following Monday
C31_EndDateSkipsWeekends ==
    lastEndDate # Null =>
        /\ lastEndDate.tradingDays >= 1 =>
               /\ lastEndDate.value % 7 # 0
               /\ lastEndDate.value % 7 # 6
               /\ Cardinality(weekdaysOf(lastEndDate.startDate + 1, lastEndDate.value))
                      = lastEndDate.tradingDays
        /\ (lastEndDate.startDate % 7 = 5 /\ lastEndDate.tradingDays = 1) =>
               lastEndDate.value = lastEndDate.startDate + 3

\* calculateEndDate(day 5, a Friday, 1) returned day 8, a Monday
C31_Witness ==
    /\ lastEndDate # Null
    /\ lastEndDate.startDate = 5
    /\ lastEndDate.tradingDays = 1
    /\ lastEndDate.value = 8

\* ------------------------------------------------------------------------
\* C32: within one client the persistence of the budget record is
\* serialized: no saveConfig call starts its write (update or insert) while
\* another saveConfig call of the client has not ended, and a run of the
\* strategy (the next decision step) begins only when every saveConfig call
\* issued before it has ended.
\* ------------------------------------------------------------------------
writeStarts(i) ==
    /\ i \in 1 .. Len(requests)
    /\ Len(requests') = Len(requests)
    /\ requests[i].phase = "select"
    /\ requests'[i].phase # "select"

C32_BudgetPersistenceIsSerialized ==
    [][/\ \A i \in 1 .. MaxRequests : writeStarts(i) => Len(requests) = 1
       /\ lastStrategy' # Null => lastStrategy'.requests = <<>>]_vars

\* a saveConfig call has begun its write while another has not ended
C32_Witness ==
    /\ Len(requests) >= 2
    /\ \E i \in 1 .. Len(requests) : requests[i].phase # "select"

\* ------------------------------------------------------------------------
\* C34: a failed persistence call that changes financial state reaches the
\* caller of the operation as an error: a saveConfig call that saves the
\* budget after a buy and throws is awaited by the operation that issued
\* it, so that the operation does not complete as a success while the
\* budget it changed is not in the store.
\* ------------------------------------------------------------------------
C34_FailedSaveReachesTheCaller ==
    (lastLedger # Null /\ lastLedger.op = "saveConfig" /\ lastLedger.threw)
        => lastLedger.awaited

\* the budget saved after a confirmed buy failed in its write: the holding is
\* in the table, its amount is used in memory only, and no call is left
C34_Witness ==
    /\ lastLedger # Null
    /\ lastLedger.op = "saveConfig"
    /\ lastLedger.threw
    /\ requests = <<>>
    /\ runs = <<>>
    /\ csvImport = NoImport
    /\ Len(holdings) = 1
    /\ config # Null
    /\ config.usedAmount = holdings[1].buy_price * holdings[1].quantity
    /\ budget_config # Null
    /\ budget_config.used_amount = 0

\* ------------------------------------------------------------------------
\* C39: when setBudget or topupBudget throws because its save to the store
\* failed, the budget in memory is what it was before the call (no budget
\* when there was none; the same total, daily amount, start date, used
\* amount and reinvested profit otherwise).
\* ------------------------------------------------------------------------
saveFailedIn(op) ==
    /\ lastLedger # Null
    /\ lastLedger.op = op
    /\ lastLedger.threw
    /\ lastLedger.saveError

sameBudget(before, after) ==
    IF before = Null THEN after = Null
    ELSE after # Null /\ budgetData(after) = budgetData(before)

C39_FailedSaveLeavesBudgetAsItWas ==
    (saveFailedIn("setBudget") \/ saveFailedIn("topupBudget"))
        => sameBudget(lastLedger.configBefore, config)

\* a top-up of 1000 of a stored budget of 5000 threw in its save: the total
\* in memory is 6000, the stored one 5000
C39_Witness ==
    /\ saveFailedIn("topupBudget")
    /\ lastLedger.configBefore # Null
    /\ lastLedger.configBefore.totalBudget = MinBudget
    /\ config.totalBudget = MinBudget + MinTopup
    /\ budget_config # Null
    /\ budget_config.total_budget = MinBudget

\* ------------------------------------------------------------------------
\* C36: one confirmed buy yields at most one holding and one increment of
\* usedAmount. The holdings change only while a buy action is pending, by
\* one row, with usedAmount raised by the price times the quantity of that
\* row, and the pending buy action is cleared in the same step, so that
\* confirming again does nothing; an attempt that fails leaves the holdings
\* and the budget as they were, so that confirming again after it leaves
\* one holding and one increment.
\* ------------------------------------------------------------------------
boughtRow == holdings'[Len(holdings')]

C36_OneHoldingPerConfirmedBuy ==
    [][/\ holdings' # holdings =>
            /\ pendingBuyAction # Null
            /\ SubSeq(holdings', 1, Len(holdings)) = holdings
            /\ Len(holdings') = Len(holdings) + 1
            /\ config' # Null
            /\ config # Null
            /\ config'.usedAmount = config.usedAmount + boughtRow.buy_price * boughtRow.quantity
            /\ pendingBuyAction' = Null
       /\ (lastBuyExecution' # Null /\ lastBuyExecution'.threw) =>
            /\ holdings' = holdings
            /\ config' = config
            /\ pendingBuyAction' # Null]_vars

\* the buy confirmed with success: one holding, its amount used once, nothing
\* pending
C36_Witness ==
    /\ lastBuyExecution # Null
    /\ lastBuyExecution.success
    /\ lastBuyExecution.rowsBefore = <<>>
    /\ Len(holdings) = 1
    /\ config.usedAmount = holdings[1].buy_price * holdings[1].quantity
    /\ pendingBuyAction = Null

\* ------------------------------------------------------------------------
\* C38: from a setBudget onward, while the budget is neither reset nor set
\* again, after every completed buy (by the confirmation dialog or by the
\* manual form) usedAmount is the sum of buy_price x quantity over all
\* holdings created since; in SpecAccount the budget is set before the
\* first holding is created, and never reset.
\* ------------------------------------------------------------------------
costOf(rows) == SumOf([i \in 1 .. Len(rows) |-> rows[i].buy_price * rows[i].quantity])

C38_UsedAmountIsCostOfHoldings ==
    (lastBuyExecution # Null /\ lastBuyExecution.success /\ config # Null)
        => config.usedAmount = costOf(holdings)

\* a second buy completed with usedAmount equal to the cost of both holdings
C38_Witness ==
    /\ lastBuyExecution # Null
    /\ lastBuyExecution.success
    /\ config # Null
    /\ Len(holdings) = 2
    /\ config.usedAmount = costOf(holdings)

\* ------------------------------------------------------------------------
\* C35: loadConfig never throws; after it the budget in memory is either the
\* record just read for the user signed in, or none; when the read fails or
\* finds no record (also after another user has signed in) no budget loaded
\* before remains in memory.
\* ------------------------------------------------------------------------
configLoaded == lastLedger # Null /\ lastLedger.op = "loadConfig"

C35_LoadConfigLeavesRecordOrNothing ==
    configLoaded =>
        /\ ~lastLedger.threw
        /\ IF lastLedger.argument.readError \/ lastLedger.argument.row = Null
           THEN config = Null
           ELSE config # Null /\ budgetData(config) = lastLedger.argument.row

\* a user without a record signed in after a user whose budget was loaded:
\* the read found nothing and the budget of the former user is in memory
C35_Witness ==
    /\ configLoaded
    /\ ~lastLedger.argument.readError
    /\ lastLedger.argument.row = Null
    /\ lastLedger.configBefore # Null
    /\ config = lastLedger.configBefore

\* ------------------------------------------------------------------------
\* C33: when two runs of calculateDailyStrategy overlap, both having read
\* the active holdings before either has persisted its sell, the holding is
\* sold by both: the run whose update is answered second finds the row
\* already sold, executes its sell all the same, and the reinvestment
\* amount of the profit is added to reinvestedProfit once more.
\* ------------------------------------------------------------------------
reinvestmentOf(sellAction, now) ==
    LET holding == sellAction.holding
        profit == holding.etfs.cmp * holding.quantity - holding.buy_price * holding.quantity
        profitAllocation == calculateProfitAllocation(
                                profit, daysBetween(holding.date_purchased, now))
    IN IF profitAllocation = Null THEN 0 ELSE profitAllocation.reinvestmentAmount

soldAgain ==
    /\ lastStrategy # Null
    /\ lastStrategy.errors = <<>>
    /\ ~lastStrategy.rowBefore.active
    /\ lastStrategy.configBefore # Null

C33_OverlappingRunsSellTwice ==
    soldAgain =>
        /\ lastStrategy.sellExecuted
        /\ config.reinvestedProfit =
               lastStrategy.configBefore.reinvestedProfit
                   + reinvestmentOf(lastStrategy.sellAction, lastStrategy.today)

\* the second of two overlapping runs has sold the holding the first had
\* sold: reinvestedProfit holds the reinvestment amount of the sale twice
C33_Witness ==
    /\ soldAgain
    /\ reinvestmentOf(lastStrategy.sellAction, lastStrategy.today) > 0
    /\ lastStrategy.configBefore.reinvestedProfit =
           reinvestmentOf(lastStrategy.sellAction, lastStrategy.today)
    /\ config.reinvestedProfit =
           2 * reinvestmentOf(lastStrategy.sellAction, lastStrategy.today)
    /\ Len(holdings) = 1

\* ------------------------------------------------------------------------
\* C37: during a CSV import, once cancel() has set the flag no further
\* upsert of an instrument is started (the one in flight may complete), and
\* the import always ends with the loading overlay hidden and, the flag
\* being set, with the notification of a cancellation, not of a success.
\* ------------------------------------------------------------------------
noUpsertAfterCancel == csvImport'.started > csvImport.started => ~csvImport.cancelled

endsHidden == csvImport'.pc = "ended" => ~csvImport'.overlay

endsReportingCancellation ==
    (csvImport'.pc = "ended" /\ csvImport'.cancelled)
        => csvImport'.notification = "CSV processing was cancelled"

C37_CancelledImportReportsCancellation ==
    [][noUpsertAfterCancel /\ endsHidden /\ endsReportingCancellation]_vars

\* cancel() was called while the upsert of the last instrument was in
\* flight: nothing was started after it, the overlay is hidden, and the
\* import has ended with `Successfully processed`
C37_Witness ==
    /\ csvImport.pc = "ended"
    /\ csvImport.cancelled
    /\ ~csvImport.overlay
    /\ csvImport.started = Len(csvImport.validETFs)
    /\ csvImport.notification = "Successfully processed"

====
